---- MODULE Spec2Model ----
(***************************************************************************)
(* Model of app.py, the NYC rent & crime dashboard.                        *)
(*                                                                         *)
(* The search callback update_map is modelled one upstream call at a time  *)
(* (geocode, nearby search per place type, distance matrix per candidate), *)
(* followed by the ZIP summary over the dataset merged_df.                 *)
(* The chart callback update_eda makes no upstream call and is one step;   *)
(* it returns nine figures, each with the table it plots.  The dataset is  *)
(* loaded from the data file when the module is imported.  Of the columns  *)
(* of the file, those the callbacks compute with are kept.                 *)
(*                                                                         *)
(* Conventions:                                                            *)
(*   - Python None is <<>>, a present value x is <<x>>.                    *)
(*   - a date is <<year, month, day>>.                                     *)
(*   - a duration is in seconds; mins = value / 60 is kept as the exact    *)
(*     fraction <<value, 60>>.                                             *)
(*   - a text built by an f-string is the tuple of its template name and   *)
(*     its interpolated values.                                            *)
(***************************************************************************)
EXTENDS Integers, Sequences, FiniteSets, TLC

VARIABLES
    csv,                    \* the data file read at import time
    merged_df,              \* the dataset loaded at import time
    map_center, map_zoom,   \* the map component's state, fed back as State
    pc,                     \* position of update_map
    n, zip_code, time_limit, types, current_center, current_zoom,
    lat, lon, markers, api_errors,
    places_count_by_type, place_markers,
    ti,                     \* position of "for place_type in types"
    all_nearby_places,
    pj,                     \* position of "for p in all_nearby_places"
    calls,                  \* the upstream calls of this request, in order
    ret,                    \* the value update_map returns
    eda_args,               \* the arguments update_eda was called with
    eda_ret,                \* what update_eda returns
    sort_ties,              \* the order this process's sort has given the
                            \* columns with equal keys it has sorted so far
    earlier_refresh         \* history: a refresh that returned earlier

vars == <<csv, merged_df, map_center, map_zoom, pc, n, zip_code, time_limit, types,
          current_center, current_zoom, lat, lon, markers, api_errors,
          places_count_by_type, place_markers, ti, all_nearby_places, pj,
          calls, ret, eda_args, eda_ret, sort_ties, earlier_refresh>>

----------------------------------------------------------------------------
(* Values *)

None == <<>>
Some(x) == <<x>>

NoUpdate == <<"no_update">>

\* src/app.py:78-85
PLACE_COLORS ==
    [t \in {"supermarket", "hospital", "subway_station", "park", "school", "library"} |->
        CASE t = "supermarket" -> "blue"
          [] t = "hospital" -> "red"
          [] t = "subway_station" -> "orange"
          [] t = "park" -> "green"
          [] t = "school" -> "purple"
          [] t = "library" -> "brown"]

\* dl.Map(id="map", center=[40.73, -73.94], zoom=12), in hundredths of a degree
InitialCenter == <<Some(4073), Some(-7394)>>
InitialZoom == 12
SearchZoom == 12

----------------------------------------------------------------------------
(* Dates *)

DateLeq(a, b) ==
    \/ a[1] < b[1]
    \/ a[1] = b[1] /\ a[2] < b[2]
    \/ a[1] = b[1] /\ a[2] = b[2] /\ a[3] <= b[3]

\* a date as the number yyyymmdd; dates compare as these numbers do
DayNumber(d) == d[1] * 10000 + d[2] * 100 + d[3]

\* latest_date_in_zip.replace(day=1)
MonthStart(d) == <<d[1], d[2], 1>>

\* strftime('%Y-%m')
YearMonth(d) == <<d[1], d[2]>>

----------------------------------------------------------------------------
(* DataFrame operations used by the ZIP summary *)

RECURSIVE SumCount(_)
SumCount(df) ==
    IF df = <<>> THEN 0 ELSE Head(df).count + SumCount(Tail(df))

\* the values of a nullable column that are not null, in row order
RECURSIVE NotNa(_, _)
NotNa(df, col) ==
    IF df = <<>> THEN <<>>
    ELSE IF Head(df)[col] = None THEN NotNa(Tail(df), col)
    ELSE <<Head(df)[col][1]>> \o NotNa(Tail(df), col)

RECURSIVE SumInts(_)
SumInts(s) == IF s = <<>> THEN 0 ELSE Head(s) + SumInts(Tail(s))

\* round(num/den) to the nearest integer, ties to even: what format ".0f" prints
RoundHalfEven(num, den) ==
    LET q == num \div den
        r == num % den
    IN  IF 2 * r < den THEN q
        ELSE IF 2 * r > den THEN q + 1
        ELSE IF q % 2 = 0 THEN q ELSE q + 1

----------------------------------------------------------------------------
(* float64 arithmetic: the values of danger_ratio and their means *)

\* F(e), with e evaluated once
With(e, F(_)) == CHOOSE r \in {F(x) : x \in {e}} : TRUE

\* A natural number of any size is the sequence of its digits in base
\* 8192 = 2^13, least significant first, without leading zeros; 0 is the
\* empty sequence.
BNorm(a0) ==
    With(a0, LAMBDA a :
        LET nz == {i \in DOMAIN a : a[i] # 0}
        IN  IF nz = {} THEN <<>>
            ELSE SubSeq(a, 1, CHOOSE i \in nz : \A j \in nz : j <= i))

\* -1, 0 or 1 as a < b, a = b or a > b
BCmp(a0, b0) ==
    With(a0, LAMBDA a : With(b0, LAMBDA b :
        IF Len(a) # Len(b) THEN (IF Len(a) < Len(b) THEN -1 ELSE 1)
        ELSE LET d == {i \in DOMAIN a : a[i] # b[i]}
             IN  IF d = {} THEN 0
                 ELSE IF \E i \in d : a[i] < b[i] /\ \A j \in d : j <= i THEN -1
                 ELSE 1))

\* a + b
BAdd(a0, b0) ==
    With(a0, LAMBDA a : With(b0, LAMBDA b :
        LET RECURSIVE from(_, _)
            from(i, carry) ==
                IF i > Len(a) /\ i > Len(b) THEN (IF carry = 0 THEN <<>> ELSE <<carry>>)
                ELSE LET x == (IF i <= Len(a) THEN a[i] ELSE 0)
                              + (IF i <= Len(b) THEN b[i] ELSE 0) + carry
                     IN  <<x % 8192>> \o from(i + 1, x \div 8192)
        IN  from(1, 0)))

\* a - b for a >= b
BSub(a0, b0) ==
    With(a0, LAMBDA a : With(b0, LAMBDA b :
        LET RECURSIVE from(_, _)
            from(i, borrow) ==
                IF i > Len(a) THEN <<>>
                ELSE LET x == a[i] - (IF i <= Len(b) THEN b[i] ELSE 0) - borrow
                     IN  IF x < 0 THEN <<x + 8192>> \o from(i + 1, 1)
                         ELSE <<x>> \o from(i + 1, 0)
        IN  BNorm(from(1, 0))))

\* a * k for 0 <= k < 2^17
BMulSmall(a0, k) ==
    With(a0, LAMBDA a :
        LET RECURSIVE from(_, _)
            from(i, carry) ==
                IF i > Len(a) THEN <<carry % 8192, carry \div 8192>>
                ELSE LET x == a[i] * k + carry
                     IN  <<x % 8192>> \o from(i + 1, x \div 8192)
        IN  BNorm(from(1, 0)))

\* <<a div d, a mod d>> for 0 < d < 2^17
BDivSmall(a0, d) ==
    With(a0, LAMBDA a :
        LET \* the digits 1..i of the quotient and the remainder, dividing from
            \* the digit i down with r carried in
            RECURSIVE from(_, _)
            from(i, r) ==
                IF i = 0 THEN << <<>>, r >>
                ELSE With(from(i - 1, (r * 8192 + a[i]) % d), LAMBDA rest :
                         <<Append(rest[1], (r * 8192 + a[i]) \div d), rest[2]>>)
        IN  With(from(Len(a), 0), LAMBDA qr : <<BNorm(qr[1]), qr[2]>>))

\* the number of bits of a
BBitLen(a0) ==
    With(a0, LAMBDA a :
        LET RECURSIVE bits(_)
            bits(k) == IF k = 0 THEN 0 ELSE 1 + bits(k \div 2)
        IN  IF a = <<>> THEN 0 ELSE 13 * (Len(a) - 1) + bits(a[Len(a)]))

\* a * 2^k
BShl(a0, k0) ==
    With(a0, LAMBDA a : With(k0, LAMBDA k :
        IF a = <<>> THEN <<>>
        ELSE [i \in 1..(k \div 13) |-> 0] \o BMulSmall(a, 2 ^ (k % 13))))

\* <<a div 2^k, t>>, where t tells the part shifted out: 0 when it is zero,
\* 1 when it is below half of 2^k, 2 when it is half, 3 when it is above
BShr(a0, k0) ==
    With(a0, LAMBDA a : With(k0, LAMBDA k :
        LET \* the digit that holds the bit j, and the bits of a below the bit j
            digit(j) == IF j \div 13 < Len(a) THEN a[j \div 13 + 1] ELSE 0
            below(j) == \/ \E i \in DOMAIN a : i <= j \div 13 /\ a[i] # 0
                        \/ digit(j) % (2 ^ (j % 13)) # 0
            half == (digit(k - 1) \div (2 ^ ((k - 1) % 13))) % 2
        IN  IF k = 0 THEN <<a, 0>>
            ELSE << IF k \div 13 >= Len(a) THEN <<>>
                    ELSE BDivSmall(SubSeq(a, k \div 13 + 1, Len(a)), 2 ^ (k % 13))[1],
                    2 * half + (IF below(k - 1) THEN 1 ELSE 0) >>))

\* A float64 is [s, m, e]: the value s * m * 2^e with sign s and a mantissa m
\* of 53 bits; zero has the mantissa 0.  Values are within the normal range.
DZero == [s |-> 1, m |-> <<>>, e |-> 0]

\* the float64 nearest to s * (N + d) * 2^e, ties to even, where 0 <= d < 1
\* and d > 0 exactly when sticky
DRound(s, N0, e, sticky) ==
    With(N0, LAMBDA N : With(BBitLen(N), LAMBDA len :
        IF N = <<>> THEN DZero
        ELSE IF len <= 53
        THEN [s |-> s, m |-> BShl(N, 53 - len), e |-> e - (53 - len)]
        ELSE With(BShr(N, len - 53), LAMBDA sh :
             With(IF \/ sh[2] = 3
                     \/ sh[2] = 2 /\ (sticky \/ sh[1][1] % 2 = 1)
                  THEN BAdd(sh[1], <<1>>) ELSE sh[1],
                  LAMBDA q :
                 \* rounding up to 2^53 gives the mantissa 2^52
                 IF BBitLen(q) = 54
                 THEN [s |-> s, m |-> <<0, 0, 0, 0, 1>>, e |-> e + (len - 53) + 1]
                 ELSE [s |-> s, m |-> q, e |-> e + (len - 53)]))))

\* x + y, rounded
DAdd(x0, y0) ==
    With(x0, LAMBDA x : With(y0, LAMBDA y :
        IF x.m = <<>> THEN y
        ELSE IF y.m = <<>> THEN x
        ELSE IF x.e - y.e > 64 THEN x
        ELSE IF y.e - x.e > 64 THEN y
        ELSE With(IF x.e < y.e THEN x.e ELSE y.e, LAMBDA emin :
             With(BShl(x.m, x.e - emin), LAMBDA Nx :
             With(BShl(y.m, y.e - emin), LAMBDA Ny :
             With(BCmp(Nx, Ny), LAMBDA c :
                 \* the sign and the magnitude of the exact sum
                 With(IF x.s = y.s THEN <<x.s, BAdd(Nx, Ny)>>
                      ELSE IF c >= 0 THEN <<x.s, BSub(Nx, Ny)>>
                      ELSE <<y.s, BSub(Ny, Nx)>>,
                      LAMBDA sum : DRound(sum[1], sum[2], emin, FALSE))))))))

\* x / k, rounded, for an integer 0 < k < 2^17
DDivInt(x0, k) ==
    With(x0, LAMBDA x :
        With(BDivSmall(BShl(x.m, 30), k), LAMBDA qr :
            DRound(x.s, qr[1], x.e - 30, qr[2] # 0)))

\* x < y for x, y >= 0
DLess(x0, y0) ==
    With(x0, LAMBDA x : With(y0, LAMBDA y :
        IF y.m = <<>> THEN FALSE
        ELSE IF x.m = <<>> THEN TRUE
        ELSE IF x.e # y.e THEN x.e < y.e
        ELSE BCmp(x.m, y.m) < 0))

\* what format ":.4f" prints for x >= 0, in units of 0.0001: x * 10^4 rounded
\* to an integer, ties to even
DRoundTo4(x0) ==
    LET RECURSIVE int(_)
        int(a) == IF a = <<>> THEN 0 ELSE a[1] + 8192 * int(Tail(a))
    IN  With(x0, LAMBDA x :
            IF x.m = <<>> THEN 0
            ELSE IF x.e >= 0 THEN int(BShl(BMulSmall(x.m, 10000), x.e))
            ELSE With(BShr(BMulSmall(x.m, 10000), -x.e), LAMBDA sh :
                 With(int(sh[1]), LAMBDA q :
                     IF sh[2] = 3 \/ (sh[2] = 2 /\ q % 2 = 1) THEN q + 1 ELSE q)))

\* numpy's add.reduce over a contiguous float64 array: in array order below 8
\* elements; up to 128 elements with eight running sums r, added up as
\* ((r1 + r2) + (r3 + r4)) + ((r5 + r6) + (r7 + r8)), then the rest in array
\* order; by halves above
RECURSIVE NumpySum(_)
NumpySum(xs0) ==
    LET \* acc + s[i] + ... + s[last], added in this order
        RECURSIVE from(_, _, _, _)
        from(s, i, last, acc) ==
            IF i > last THEN acc
            ELSE With(DAdd(acc, s[i]), LAMBDA next : from(s, i + 1, last, next))
        \* r[lo] + ... + r[hi], added by halves
        RECURSIVE pairs(_, _, _)
        pairs(r, lo, hi) ==
            IF lo = hi THEN r[lo]
            ELSE DAdd(pairs(r, lo, (lo + hi) \div 2), pairs(r, (lo + hi) \div 2 + 1, hi))
    IN  With(xs0, LAMBDA xs : With(Len(xs), LAMBDA len : With(len \div 8, LAMBDA blocks :
            IF len < 8 THEN from(xs, 1, len, DZero)
            ELSE IF len <= 128
            THEN With([j \in 1..8 |->
                          from([b \in 1..(blocks - 1) |-> xs[8 * b + j]],
                               1, blocks - 1, xs[j])],
                      LAMBDA r : from(xs, 8 * blocks + 1, len, pairs(r, 1, 8)))
            ELSE With((len \div 2) - ((len \div 2) % 8), LAMBDA n2 :
                     DAdd(NumpySum(SubSeq(xs, 1, n2)),
                          NumpySum(SubSeq(xs, n2 + 1, len)))))))

\* A cell of the column danger_ratio in the data file: a decimal numeral
\* without sign and without exponent, kept as the digits before the point and
\* the digits after it; Decimal(<<0>>, <<0, 0, 1, 2, 5>>) is the text 0.00125.
\* An empty cell is None.
Decimal(ip, fp) == <<ip, fp>>

\* read_csv's float converter (float_precision=None) on the text of a cell.
\* It keeps the first 17 digit characters, leading zeros included, as
\* number = number * 10. + digit in float64 (the product is rounded, then the
\* sum), counts the digits before the point that it drops, ignores the digits
\* after the point that it drops, and scales the number by one multiplication
\* or division by a power of ten, which is exact up to 10^22.  The result is
\* not always the float64 nearest to the numeral.
precise_xstrtod(cell) ==
    LET max_digits == 17
        kept == IF Len(cell[1]) < max_digits THEN Len(cell[1]) ELSE max_digits
        num_decimals ==
            IF Len(cell[2]) < max_digits - kept THEN Len(cell[2]) ELSE max_digits - kept
        exponent == (Len(cell[1]) - kept) - num_decimals
        \* x rounded to 53 bits, ties to even, as an integer
        round(x0) ==
            With(x0, LAMBDA x : With(BBitLen(x), LAMBDA len :
                IF len <= 53 THEN x
                ELSE With(BShr(x, len - 53), LAMBDA sh :
                         BShl(IF sh[2] = 3 \/ (sh[2] = 2 /\ sh[1][1] % 2 = 1)
                              THEN BAdd(sh[1], <<1>>) ELSE sh[1], len - 53))))
        \* number after the digits i.. of ds; number is an integer
        RECURSIVE from(_, _, _)
        from(ds, i, number) ==
            IF i > Len(ds) THEN number
            ELSE With(round(BAdd(round(BMulSmall(number, 10)),
                                 IF ds[i] = 0 THEN <<>> ELSE <<ds[i]>>)),
                      LAMBDA next : from(ds, i + 1, next))
        \* <<a div 10^k, whether a mod 10^k is not zero>>
        RECURSIVE div10(_, _, _)
        div10(a, k, sticky) ==
            IF k = 0 THEN <<a, sticky>>
            ELSE With(BDivSmall(a, IF k >= 5 THEN 100000 ELSE 10 ^ k), LAMBDA qr :
                     div10(qr[1], IF k >= 5 THEN k - 5 ELSE 0, sticky \/ qr[2] # 0))
        RECURSIVE mul10(_, _)
        mul10(a, k) ==
            IF k = 0 THEN a
            ELSE With(BMulSmall(a, IF k >= 5 THEN 100000 ELSE 10 ^ k), LAMBDA p :
                     mul10(p, IF k >= 5 THEN k - 5 ELSE 0))
    IN  With(from(SubSeq(cell[1], 1, kept) \o SubSeq(cell[2], 1, num_decimals),
                  1, <<>>),
             LAMBDA number :
                 IF exponent > 0 THEN DRound(1, mul10(number, exponent), 0, FALSE)
                 ELSE With(div10(BShl(number, 120), -exponent, FALSE), LAMBDA qs :
                          DRound(1, qs[1], -120, qs[2])))

\* df['danger_ratio']: float64 values, None for NaN
DangerColumn(df) == [i \in DOMAIN df |-> df[i].danger_ratio]

----------------------------------------------------------------------------
(* DataFrame operations used by the ZIP summary, continued *)

\* row_zips is a list after loading; str(zip_code) in row_zips
zip_match(row_zips, zip) ==
    \E i \in 1..Len(row_zips) : row_zips[i] = zip

\* merged_df[merged_df["ZIP Codes"].apply(zip_match)]
DfZip(df, zip) == SelectSeq(df, LAMBDA r : zip_match(r.zips, zip))

\* df_zip["date"].max()
LatestDate(df) ==
    CHOOSE d \in {df[i].date : i \in 1..Len(df)} :
        \A i \in 1..Len(df) : DateLeq(df[i].date, d)

\* a variant that keeps all the records of the ZIP
DfLatestMonthWholeZip(dfz) == dfz

\* a variant that keeps the records from the latest date on, not from the start
\* of its month
DfLatestMonthFromLatestDate(dfz) ==
    SelectSeq(dfz, LAMBDA r : DateLeq(LatestDate(dfz), r.date))

\* df_zip[df_zip["date"] >= latest_month_start]
DfLatestMonth(dfz) ==
    LET latest_month_start == MonthStart(LatestDate(dfz))
    IN  SelectSeq(dfz, LAMBDA r : DateLeq(latest_month_start, r.date))

\* a variant that counts the records of a category instead of summing `count`
CrimeCountRows(dfm, cat) == Len(SelectSeq(dfm, LAMBDA r : r.law_cat_cd = cat))

\* df_latest_month.groupby("law_cat_cd")["count"].sum().to_dict().get(cat, 0)
CrimeCount(dfm, cat) == SumCount(SelectSeq(dfm, LAMBDA r : r.law_cat_cd = cat))

\* a variant whose mean divides by the number of records, null rents included
AvgRentOverAllRecords(dfm) ==
    LET xs == NotNa(dfm, "median_rent")
    IN  IF dfm # <<>> /\ xs # <<>>
        THEN Some(RoundHalfEven(SumInts(xs), Len(dfm)))
        ELSE None

\* df_latest_month['median_rent'].mean() printed with ":,.0f"; None prints N/A
AvgRent(dfm) ==
    LET xs == NotNa(dfm, "median_rent")
    IN  IF dfm # <<>> /\ xs # <<>>
        THEN Some(RoundHalfEven(SumInts(xs), Len(xs)))
        ELSE None

\* df_latest_month['danger_ratio'].mean() printed with ":.4f", in units of
\* 0.0001.  Series.mean is nanops.nanmean: the nulls count as 0.0 in the sum,
\* which numpy adds up, and the sum is divided by the number of values that are
\* not null
AvgDanger(dfm) ==
    With(DangerColumn(dfm), LAMBDA col :
        LET filled == [i \in DOMAIN col |-> IF col[i] = None THEN DZero ELSE col[i][1]]
            count == Len(SelectSeq(col, LAMBDA v : v # None))
        IN  IF col # <<>> /\ count > 0
            THEN Some(DRoundTo4(DDivInt(NumpySum(filled), count)))
            ELSE None)

\* numpy's argsort(kind="quicksort") of the integer keys v: the positions of
\* v in ascending order of their keys.  A range of more than 17 positions is
\* partitioned around the median of its first, middle and last key, and a
\* range of up to 17 is sorted by insertion, which keeps equal keys in their
\* order; the partition does not.  This is numpy's scalar sort; the heapsort
\* it falls back to after 2 * floor(log2(n)) nested partitions is not reached
\* below 34 keys.
aquicksort(v0) ==
    With(v0, LAMBDA v :
        LET swap(ts, i, j) == [ts EXCEPT ![i] = ts[j], ![j] = ts[i]]
            \* the insertion sort of the positions pl..pr, from pi on
            RECURSIVE insertion(_, _, _, _)
            insertion(ts, pl, pr, pi) ==
                IF pi > pr THEN ts
                ELSE With(ts[pi], LAMBDA vi :
                     With({k \in pl..(pi - 1) : ~(v[vi] < v[ts[k]])}, LAMBDA stop :
                     With(IF stop = {} THEN pl
                          ELSE 1 + CHOOSE k \in stop : \A l \in stop : l <= k,
                          LAMBDA p_j :
                         insertion(SubSeq(ts, 1, p_j - 1) \o <<vi>>
                                       \o SubSeq(ts, p_j, pi - 1)
                                       \o SubSeq(ts, pi + 1, Len(ts)),
                                   pl, pr, pi + 1))))
            \* the scans from both ends and the swaps, with the pivot key vp
            \* parked at pr - 1; gives the positions and the pivot's place
            RECURSIVE scan(_, _, _, _, _)
            scan(ts, pr, vp, pi0, p_j0) ==
                With(CHOOSE k \in (pi0 + 1)..pr :
                         /\ ~(v[ts[k]] < vp)
                         /\ \A l \in (pi0 + 1)..(k - 1) : v[ts[l]] < vp,
                     LAMBDA pi :
                With(CHOOSE k \in 1..(p_j0 - 1) :
                         /\ ~(vp < v[ts[k]])
                         /\ \A l \in (k + 1)..(p_j0 - 1) : vp < v[ts[l]],
                     LAMBDA p_j :
                    IF pi >= p_j THEN <<swap(ts, pi, pr - 1), pi>>
                    ELSE scan(swap(ts, pi, p_j), pr, vp, pi, p_j)))
            partition(ts0, pl, pr) ==
                With(pl + (pr - pl) \div 2, LAMBDA pm :
                With(IF v[ts0[pm]] < v[ts0[pl]] THEN swap(ts0, pm, pl) ELSE ts0, LAMBDA a :
                With(IF v[a[pr]] < v[a[pm]] THEN swap(a, pr, pm) ELSE a, LAMBDA b :
                With(IF v[b[pm]] < v[b[pl]] THEN swap(b, pm, pl) ELSE b, LAMBDA c :
                    scan(swap(c, pm, pr - 1), pr, v[c[pm]], pl, pr - 1)))))
            RECURSIVE sort(_, _, _)
            sort(ts, pl, pr) ==
                IF pr - pl > 16
                THEN With(partition(ts, pl, pr), LAMBDA p :
                     With(sort(p[1], pl, p[2] - 1), LAMBDA left :
                         sort(left, p[2] + 1, pr)))
                ELSE insertion(ts, pl, pr, pl + 1)
            \* the positions 1..n, as the caller fills tosort
            RECURSIVE arange(_)
            arange(num) == IF num = 0 THEN <<>> ELSE Append(arange(num - 1), num)
        IN  sort(arange(Len(v)), 1, Len(v)))

\* the row order of sort_values(column, ascending=False), whose kind is
\* quicksort: pandas' nargsort reverses the keys that are not NaN, sorts them
\* in ascending order, reverses the result, and puts the rows of the NaN keys
\* last in row order.  A key is None for NaN, and else Some integer.
nargsort(items0) ==
    With(items0, LAMBDA items :
        LET idx == [i \in DOMAIN items |-> i]
            nan_idx == SelectSeq(idx, LAMBDA i : items[i] = None)
        IN  With(SelectSeq(idx, LAMBDA i : items[i] # None), LAMBDA non_nan_idx :
            With(Len(non_nan_idx), LAMBDA len :
            With(aquicksort([i \in 1..len |-> items[non_nan_idx[len + 1 - i]][1]]),
                 LAMBDA sorted :
                [i \in 1..len |-> non_nan_idx[len + 1 - sorted[len + 1 - i]]]
                    \o nan_idx))))

\* the rows in the order of an argsort(kind="mergesort") of their dates, which
\* keeps equal dates in row order
SortedByDate(df0) ==
    With(df0, LAMBDA df :
        With([i \in DOMAIN df |->
                 Cardinality({j \in DOMAIN df :
                     \/ DayNumber(df[j].date) < DayNumber(df[i].date)
                     \/ df[j].date = df[i].date /\ j < i})],
             LAMBDA before :
            [k \in DOMAIN df |-> df[CHOOSE i \in DOMAIN df : before[i] = k - 1]]))

\* df_zip.sort_values(by="date", ascending=False).iloc[0], as the position of
\* the row in df_zip
latest_overall_data_point(dfz) ==
    nargsort([i \in DOMAIN dfz |-> Some(DayNumber(dfz[i].date))])[1]

\* the rows of the latest date
LatestRows(dfz) ==
    {i \in 1..Len(dfz) : dfz[i].date = LatestDate(dfz)}

----------------------------------------------------------------------------
(* Texts and components built by update_map *)

\* html.P(text)
P(text) == <<"P", text>>

\* zip_marker: dl.Marker(position=[lat, lon], children=dl.Popup(...))
Marker(la, lo, popup) ==
    [tag |-> "Marker", position |-> <<la, lo>>, popup |-> popup]

\* dl.CircleMarker(center=[dest_lat, dest_lng], color=PLACE_COLORS[place_type],
\*                 children=[Tooltip(place_name), Popup(place_name, mins)])
CircleMarker(p, place_type, mins) ==
    [tag |-> "CircleMarker", center |-> <<p.lat, p.lng>>,
     color |-> PLACE_COLORS[place_type], name |-> p.name, mins |-> mins]

\* "mins <= time_limit" for mins = value / 60
MinsLeq(mins, limit) == mins[1] <= limit * mins[2]

\* the keys of {ptype: 0 for ptype in types}, in insertion order
RECURSIVE DictKeys(_, _)
DictKeys(ts, seen) ==
    IF ts = <<>> THEN <<>>
    ELSE IF Head(ts) \in seen THEN DictKeys(Tail(ts), seen)
    ELSE <<Head(ts)>> \o DictKeys(Tail(ts), seen \cup {Head(ts)})

\* places_count_by_type = {ptype: 0 for ptype in types} if types else {}
InitialCounts(ts) == [t \in {ts[i] : i \in 1..Len(ts)} |-> 0]

\* [Li(ptype: count) for ptype, count in places_count_by_type.items()],
\* with "if count > 0" when positive_only
PlacesSummaryList(ts, counts, positive_only) ==
    LET keys == DictKeys(ts, {})
        kept == SelectSeq(keys, LAMBDA t : ~positive_only \/ counts[t] > 0)
    IN  [i \in 1..Len(kept) |-> <<kept[i], counts[kept[i]]>>]

\* the "Places Found Nearby" part of the summary
PlacesSummary(ts, counts, limit, positive_only) ==
    LET places_summary_list == PlacesSummaryList(ts, counts, positive_only)
    IN  IF places_summary_list # <<>>
        THEN << <<"places_found", limit>>, <<"places_list", places_summary_list>> >>
        ELSE << <<"no_places_found", limit>> >>

\* summary_elements, lines 464-548; latest is the index in df_zip of the row
\* sort_values(...).iloc[0] returned
SummaryElements(df, zip, errors, ts, counts, limit, latest) ==
    LET df_zip == DfZip(df, zip)
        df_latest_month == DfLatestMonth(df_zip)
        month == YearMonth(MonthStart(LatestDate(df_zip)))
    IN  << <<"zip", zip>> >>
        \o (IF errors # <<>> THEN << <<"api_errors", errors>> >> ELSE <<>>)
        \o (IF df_zip = <<>>
            THEN << <<"no_data">> >>
                 \o (IF ts # <<>> THEN PlacesSummary(ts, counts, limit, FALSE) ELSE <<>>)
            ELSE << <<"area", df_zip[latest].precinct_area>>,
                    <<"latest_date", LatestDate(df_zip)>>,
                    <<"avg_rent", month, AvgRent(df_latest_month)>> >>
                 \o (IF df_latest_month # <<>>
                     THEN << <<"crime_counts_header", month>>,
                             <<"crime_counts",
                               CrimeCount(df_latest_month, "FELONY"),
                               CrimeCount(df_latest_month, "MISDEMEANOR"),
                               CrimeCount(df_latest_month, "VIOLATION")>> >>
                     ELSE << <<"no_crime_data", month>> >>)
                 \o << <<"avg_danger", month, AvgDanger(df_latest_month)>> >>
                 \o (IF ts # <<>> THEN PlacesSummary(ts, counts, limit, TRUE)
                     ELSE << <<"no_types_selected">> >>))

\* lines 551-554: the first dl.Marker of markers gets the summary as its popup
RECURSIVE UpdateZipPopup(_, _, _, _)
UpdateZipPopup(ms, la, lo, summary) ==
    IF ms = <<>> THEN <<>>
    ELSE IF Head(ms).tag = "Marker"
         THEN <<Marker(la, lo, summary)>> \o Tail(ms)
         ELSE <<Head(ms)>> \o UpdateZipPopup(Tail(ms), la, lo, summary)

----------------------------------------------------------------------------
(* Bounds and inputs *)

\* the largest number of places one nearby-search response lists
MaxCand == 2

\* search_btn n_clicks: 0 when the page loads, positive after a click
NClicks == {0, 1}

\* zip_input: empty, a ZIP of the dataset, a ZIP absent from it
ZipInputs == {"", "10001", "10003"}

\* travel_dropdown: range(5, 61, 5)
Budgets == {5, 10}

\* place_type: the (multi) dropdown over PLACE_COLORS gives a list without
\* repeats; "bogus" stands for a value outside the vocabulary
TypeChoices ==
    { <<>>, <<"supermarket">>, <<"hospital", "supermarket">>,
      <<"bogus", "park">>, <<"school", "bogus">> }

\* walking durations in seconds an OK distance element may carry
Durations == {300, 301}

----------------------------------------------------------------------------
(* Upstream responses: what requests.get(...), raise_for_status() and json()
   give back.  exc names the exception raised, "" when none is. *)

\* the coordinates a geocoding result carries, in hundredths of a degree
GeocodedLocation == [lat |-> 4075, lng |-> -7399]

\* the responses of the geocoding call; l is results[0]["geometry"]["location"],
\* and ok = FALSE is an entry without it
GeoResponses ==
    { [exc |-> e, status |-> "", results |-> <<>>, error_message |-> ""] :
        e \in {"RequestException", "Exception"} }
    \cup { [exc |-> "", status |-> "OK", results |-> <<l>>, error_message |-> ""] :
        l \in { [ok |-> TRUE, lat |-> Some(GeocodedLocation.lat),
                  lng |-> Some(GeocodedLocation.lng)],
                [ok |-> TRUE, lat |-> None, lng |-> None],
                [ok |-> FALSE, lat |-> None, lng |-> None] } }
    \cup { [exc |-> "", status |-> "OK", results |-> <<>>, error_message |-> ""],
           [exc |-> "", status |-> "ZERO_RESULTS", results |-> <<>>, error_message |-> ""],
           [exc |-> "", status |-> "REQUEST_DENIED", results |-> <<>>,
            error_message |-> "The provided API key is invalid."] }

\* one entry of a nearby-search result list, named after its position k:
\*   ok         a place with geometry.location.lat and .lng
\*   no_coords  a place without geometry, without geometry.location, or
\*              whose location has no lat or no lng (lines 384, 388)
\*   not_dict   an entry that is no mapping: p.get raises
Candidate(k, kind) ==
    [name |-> k, kind |-> kind,
     lat |-> IF kind = "ok" THEN Some(GeocodedLocation.lat + k) ELSE None,
     lng |-> IF kind = "ok" THEN Some(GeocodedLocation.lng) ELSE None]

CandidateLists ==
    UNION { { [k \in 1..len |-> Candidate(k, f[k])] :
                f \in [1..len -> {"ok", "no_coords", "not_dict"}] } :
            len \in 1..MaxCand }

PlacesResponses ==
    { [exc |-> e, status |-> "", results |-> <<>>, error_message |-> ""] :
        e \in {"RequestException", "Exception"} }
    \cup { [exc |-> "", status |-> "OK", results |-> c, error_message |-> ""] :
        c \in CandidateLists \cup {<<>>} }
    \cup { [exc |-> "", status |-> "ZERO_RESULTS", results |-> <<>>, error_message |-> ""],
           [exc |-> "", status |-> "OVER_QUERY_LIMIT", results |-> <<>>,
            error_message |-> "You have exceeded your daily request quota."] }

\* a distance-matrix response: rows tells whether rows[0].elements[0] exists,
\* el_status is its status, duration its duration.value (None: no duration)
DistanceResponses ==
    { [exc |-> e, status |-> "", rows |-> FALSE, el_status |-> "", duration |-> None] :
        e \in {"RequestException", "Exception"} }
    \cup { [exc |-> "", status |-> "REQUEST_DENIED", rows |-> FALSE,
            el_status |-> "", duration |-> None],
           [exc |-> "", status |-> "OK", rows |-> FALSE,
            el_status |-> "", duration |-> None],
           [exc |-> "", status |-> "OK", rows |-> TRUE,
            el_status |-> "ZERO_RESULTS", duration |-> None],
           [exc |-> "", status |-> "OK", rows |-> TRUE,
            el_status |-> "OK", duration |-> None] }
    \cup { [exc |-> "", status |-> "OK", rows |-> TRUE,
            el_status |-> "OK", duration |-> Some(d)] : d \in Durations }

----------------------------------------------------------------------------
(* How update_map reads the responses *)

\* line 334, and the KeyError of line 335 on an entry without a location
GeocodeOk(geo) ==
    /\ geo.exc = ""
    /\ geo.status = "OK"
    /\ geo.results # <<>>
    /\ geo.results[1].ok

\* err_msg of lines 344, 350, 355
GeocodeError(geo, zip) ==
    IF geo.exc = "RequestException"
    THEN <<"Network error during Geocoding", zip, geo.exc>>
    ELSE IF geo.exc = "Exception"
    THEN <<"Unexpected error during Geocoding", zip, geo.exc>>
    ELSE IF geo.status = "OK" /\ geo.results # <<>>
    THEN <<"Unexpected error during Geocoding", zip, "KeyError">>
    ELSE <<"Geocoding failed", zip, geo.status, geo.error_message>>

\* line 378
PlacesHasResults(places_result) ==
    /\ places_result.exc = ""
    /\ places_result.status = "OK"
    /\ places_result.results # <<>>

\* every response without results is an error, ZERO_RESULTS too
PlacesErrorNoZeroResults(places_result, place_type) ==
    IF places_result.exc = "RequestException"
    THEN Some(<<"Network error during Places API search", place_type, places_result.exc>>)
    ELSE IF places_result.exc = "Exception"
    THEN Some(<<"Unexpected error during Places API processing", place_type,
                places_result.exc>>)
    ELSE Some(<<"Places API Error", place_type, places_result.status,
                places_result.error_message>>)

\* a variant in which a response with status OK is never an error
PlacesErrorOkIsNoError(places_result, place_type) ==
    IF places_result.exc = "RequestException"
    THEN Some(<<"Network error during Places API search", place_type, places_result.exc>>)
    ELSE IF places_result.exc = "Exception"
    THEN Some(<<"Unexpected error during Places API processing", place_type,
                places_result.exc>>)
    ELSE IF places_result.status \in {"ZERO_RESULTS", "OK"}
    THEN None
    ELSE Some(<<"Places API Error", place_type, places_result.status,
                places_result.error_message>>)

\* the error lines 435-451 append to api_errors for a response without
\* results: None for ZERO_RESULTS
PlacesError(places_result, place_type) ==
    IF places_result.exc = "RequestException"
    THEN Some(<<"Network error during Places API search", place_type, places_result.exc>>)
    ELSE IF places_result.exc = "Exception"
    THEN Some(<<"Unexpected error during Places API processing", place_type,
                places_result.exc>>)
    ELSE IF places_result.status = "ZERO_RESULTS"
    THEN None
    ELSE Some(<<"Places API Error", place_type, places_result.status,
                places_result.error_message>>)

\* lines 395-401: duration.value when the response and its element are OK
WalkingSeconds(dur_result) ==
    IF /\ dur_result.exc = ""
       /\ dur_result.status = "OK"
       /\ dur_result.rows
       /\ dur_result.el_status = "OK"
       /\ dur_result.duration # None
    THEN dur_result.duration
    ELSE None

\* line 401
Mins(value) == <<value, 60>>

\* "mins < time_limit"
WithinBudgetStrict(value, limit) == value < 60 * limit

\* "mins >= time_limit"
WithinBudgetReversed(value, limit) == value >= 60 * limit

\* line 402
WithinBudget(value, limit) == MinsLeq(Mins(value), limit)

\* lines 402-416 on place_markers
AddMarker(pm, p, place_type, secs, limit) ==
    IF secs # None /\ WithinBudget(secs[1], limit)
    THEN Append(pm, CircleMarker(p, place_type, Mins(secs[1])))
    ELSE pm

\* the count is incremented before the budget test
AddCountAnyDuration(counts, place_type, secs, limit) ==
    IF secs # None /\ place_type \in DOMAIN counts
    THEN [counts EXCEPT ![place_type] = @ + 1]
    ELSE counts

\* lines 402-405 on places_count_by_type
AddCount(counts, place_type, secs, limit) ==
    IF secs # None /\ WithinBudget(secs[1], limit) /\ place_type \in DOMAIN counts
    THEN [counts EXCEPT ![place_type] = @ + 1]
    ELSE counts

\* lines 418-428: what a failed distance call adds to api_errors (nothing:
\* the messages are printed only)
DistanceErrors(errors, dur_result, p) == errors

\* what an upstream call gave: the exception raised, else the status
Status(response) == IF response.exc # "" THEN response.exc ELSE response.status

\* one upstream call, as recorded in calls: the endpoint, the place type and
\* candidate it was made for, the status and result list it gave and, for a
\* distance call, the walking seconds read from it
Call(api, place_type, name, status, value, results) ==
    [api |-> api, place_type |-> place_type, name |-> name,
     status |-> status, value |-> value, results |-> results]

----------------------------------------------------------------------------
(* update_map, lines 315-563 *)

\* what the callback returns: markers, info, center, zoom; None is
\* dash.no_update
Return(ms, info, center, zoom) ==
    [markers |-> ms, info |-> info, center |-> center, zoom |-> zoom]

NoReturn == Return(None, <<>>, None, None)

\* the locals of update_map before the call and after it returned
LocalsUnset ==
    /\ lat = None /\ lon = None
    /\ markers = <<>> /\ api_errors = <<>>
    /\ places_count_by_type = <<>> /\ place_markers = <<>>
    /\ ti = 0 /\ all_nearby_places = <<>> /\ pj = 0

\* lines 315-325: the callback is invoked with the button's n_clicks and the
\* State values; the two early returns
Invoke(nn, z, limit, ts) ==
    /\ pc = "idle"
    /\ n' = nn /\ zip_code' = z /\ time_limit' = limit /\ types' = ts
    /\ current_center' = map_center /\ current_zoom' = map_zoom
    /\ calls' = <<>>
    /\ IF nn = 0 \/ z = ""
       THEN /\ ret' = Return(None, P(<<"Enter ZIP Code, select place types, and click Search to explore.">>),
                             None, None)
            /\ pc' = "done"
       ELSE IF merged_df = <<>>
       THEN /\ ret' = Return(Some(<<>>), P(<<"Data failed to load. Map data unavailable.">>),
                             Some(map_center), Some(map_zoom))
            /\ pc' = "done"
       ELSE /\ ret' = NoReturn
            /\ pc' = "geocode"
    /\ UNCHANGED <<csv, sort_ties, earlier_refresh, eda_args, eda_ret, merged_df, map_center, map_zoom, lat, lon, markers, api_errors,
                   places_count_by_type, place_markers, ti, all_nearby_places, pj>>

\* the geocoding failure returns the map's default view
GeocodeFailureDefaultView(err_msg) ==
    Return(Some(<<>>), P(err_msg), Some(InitialCenter), Some(InitialZoom))

\* lines 347, 353, 358: return [], html.P(err_msg), current_center, current_zoom
GeocodeFailure(err_msg) ==
    Return(Some(<<>>), P(err_msg), Some(current_center), Some(current_zoom))

\* the loop over types stops after the type at position i
AfterTypeBreak(i) == "summary"

\* where the loop over types goes after the type at position i
AfterType(i) == IF i + 1 > Len(types) THEN "summary" ELSE "places"

\* lines 327-365: the geocoding call and what follows it up to the loop
Geocode(geo) ==
    /\ pc = "geocode"
    /\ IF GeocodeOk(geo)
       THEN LET loc == geo.results[1]
            IN  /\ lat' = loc.lat /\ lon' = loc.lng
                /\ markers' = <<Marker(loc.lat, loc.lng, <<"Searched ZIP", zip_code>>)>>
                /\ calls' = Append(calls, Call("geocode", "", 0, Status(geo), None, geo.results))
                /\ places_count_by_type' = InitialCounts(types)
                /\ place_markers' = <<>>
                /\ IF loc.lat # None /\ loc.lng # None /\ types # <<>>
                   THEN pc' = "places" /\ ti' = 1
                   ELSE pc' = "summary" /\ ti' = ti
                /\ UNCHANGED <<api_errors, ret>>
       ELSE /\ api_errors' = Append(api_errors, GeocodeError(geo, zip_code))
            /\ calls' = Append(calls, Call("geocode", "", 0, Status(geo), None, geo.results))
            /\ ret' = GeocodeFailure(GeocodeError(geo, zip_code))
            /\ pc' = "done"
            /\ UNCHANGED <<lat, lon, markers, places_count_by_type, place_markers, ti>>
    /\ UNCHANGED <<csv, sort_ties, earlier_refresh, eda_args, eda_ret, merged_df, map_center, map_zoom, n, zip_code, time_limit, types,
                   current_center, current_zoom, all_nearby_places, pj>>

\* a variant in which no place type is skipped
NoneSkipped(place_type) == FALSE

\* line 368: "if place_type not in PLACE_COLORS"
Skipped(place_type) == place_type \notin DOMAIN PLACE_COLORS

\* lines 368-370: a place type without a colour is skipped
SkipType ==
    /\ pc = "places"
    /\ Skipped(types[ti])
    /\ ti' = ti + 1
    /\ pc' = AfterType(ti)
    /\ UNCHANGED <<csv, sort_ties, earlier_refresh, eda_args, eda_ret, merged_df, map_center, map_zoom, n, zip_code, time_limit, types,
                   current_center, current_zoom, lat, lon, markers, api_errors,
                   places_count_by_type, place_markers, all_nearby_places, pj,
                   calls, ret>>

\* lines 372-380 and 435-451: the nearby search for types[ti]
NearbySearch(places_result) ==
    /\ pc = "places"
    /\ ~Skipped(types[ti])
    /\ IF PlacesHasResults(places_result)
       THEN /\ all_nearby_places' = places_result.results
            /\ pj' = 1
            /\ pc' = "distance"
            /\ calls' = Append(calls, Call("places", types[ti], 0, Status(places_result),
                                           None, places_result.results))
            /\ UNCHANGED <<api_errors, ti>>
       ELSE /\ api_errors' =
                  IF PlacesError(places_result, types[ti]) = None THEN api_errors
                  ELSE Append(api_errors, PlacesError(places_result, types[ti])[1])
            /\ calls' = Append(calls, Call("places", types[ti], 0, Status(places_result),
                                           None, places_result.results))
            /\ ti' = ti + 1
            /\ pc' = AfterType(ti)
            /\ UNCHANGED <<all_nearby_places, pj>>
    /\ UNCHANGED <<csv, sort_ties, earlier_refresh, eda_args, eda_ret, merged_df, map_center, map_zoom, n, zip_code, time_limit, types,
                   current_center, current_zoom, lat, lon, markers,
                   places_count_by_type, place_markers, ret>>

\* the loop over all_nearby_places moves past the candidate at position pj
NextCandidate ==
    IF pj + 1 > Len(all_nearby_places)
    THEN /\ ti' = ti + 1 /\ pc' = AfterType(ti) /\ pj' = pj + 1
    ELSE /\ ti' = ti /\ pc' = "distance" /\ pj' = pj + 1

\* lines 383-388 and 430-433: a place without coordinates is skipped
SkipCandidate ==
    /\ pc = "distance"
    /\ all_nearby_places[pj].kind = "no_coords"
    /\ NextCandidate
    /\ UNCHANGED <<csv, sort_ties, earlier_refresh, eda_args, eda_ret, merged_df, map_center, map_zoom, n, zip_code, time_limit, types,
                   current_center, current_zoom, lat, lon, markers, api_errors,
                   places_count_by_type, place_markers, all_nearby_places,
                   calls, ret>>

\* lines 383 and 448-451: an entry that is no mapping raises inside the outer
\* try; the rest of this type's places is abandoned
BadCandidate ==
    /\ pc = "distance"
    /\ all_nearby_places[pj].kind = "not_dict"
    /\ api_errors' = Append(api_errors,
            <<"Unexpected error during Places API processing", types[ti], "AttributeError">>)
    /\ ti' = ti + 1
    /\ pc' = AfterType(ti)
    /\ UNCHANGED <<csv, sort_ties, earlier_refresh, eda_args, eda_ret, merged_df, map_center, map_zoom, n, zip_code, time_limit, types,
                   current_center, current_zoom, lat, lon, markers,
                   places_count_by_type, place_markers, all_nearby_places, pj,
                   calls, ret>>

\* the distance call abandons the rest of the type's places when it fails
AfterDistanceAbort(secs) ==
    IF secs = None
    THEN /\ ti' = ti + 1 /\ pc' = AfterType(ti) /\ pj' = pj
    ELSE NextCandidate

\* a failed distance call is made again for the same candidate
AfterDistanceRetry(secs) ==
    IF secs = None
    THEN /\ ti' = ti /\ pc' = "distance" /\ pj' = pj
    ELSE NextCandidate

\* lines 389-428 lie inside the loop over all_nearby_places: whatever the
\* call gave, the loop goes on with the next candidate
AfterDistance(secs) == NextCandidate

\* lines 389-428: the walking time to the candidate at position pj
Distance(dur_result) ==
    /\ pc = "distance"
    /\ all_nearby_places[pj].kind = "ok"
    /\ LET p == all_nearby_places[pj]
           secs == WalkingSeconds(dur_result)
       IN  /\ place_markers' = AddMarker(place_markers, p, types[ti], secs, time_limit)
           /\ places_count_by_type' =
                  AddCount(places_count_by_type, types[ti], secs, time_limit)
           /\ api_errors' = DistanceErrors(api_errors, dur_result, p)
           /\ calls' = Append(calls,
                  Call("distance", types[ti], p.name,
                       IF secs = None THEN "FAIL" ELSE "OK", secs, <<>>))
    /\ AfterDistance(WalkingSeconds(dur_result))
    /\ UNCHANGED <<csv, sort_ties, earlier_refresh, eda_args, eda_ret, merged_df, map_center, map_zoom, n, zip_code, time_limit, types,
                   current_center, current_zoom, lat, lon, markers,
                   all_nearby_places, ret>>

\* line 365
SearchRan == lat # None /\ lon # None /\ types # <<>>

\* lines 453-563: the markers, the ZIP summary and the return
Summary(latest) ==
    /\ pc = "summary"
    /\ LET merged == IF SearchRan THEN place_markers \o markers ELSE markers
           summary_elements ==
               SummaryElements(merged_df, zip_code, api_errors, types,
                               places_count_by_type, time_limit, latest)
       IN  /\ markers' = UpdateZipPopup(merged, lat, lon, summary_elements)
           /\ ret' = Return(Some(UpdateZipPopup(merged, lat, lon, summary_elements)),
                            <<"Div", summary_elements>>,
                            Some(IF lat # None THEN <<lat, lon>> ELSE current_center),
                            Some(IF lat # None THEN SearchZoom ELSE current_zoom))
    /\ pc' = "done"
    /\ UNCHANGED <<csv, sort_ties, earlier_refresh, eda_args, eda_ret, merged_df, map_center, map_zoom, n, zip_code, time_limit, types,
                   current_center, current_zoom, lat, lon, api_errors,
                   places_count_by_type, place_markers, ti, all_nearby_places, pj,
                   calls>>


\* lines 303-314: Dash writes the returned values to the outputs; the map's
\* center and zoom are what the next call reads as State
Deliver ==
    /\ pc = "done"
    /\ map_center' = IF ret.center = None THEN map_center ELSE ret.center[1]
    /\ map_zoom' = IF ret.zoom = None THEN map_zoom ELSE ret.zoom[1]
    /\ pc' = "idle"
    /\ n' = 0 /\ zip_code' = "" /\ time_limit' = 0 /\ types' = <<>>
    /\ current_center' = map_center' /\ current_zoom' = map_zoom'
    /\ lat' = None /\ lon' = None
    /\ markers' = <<>> /\ api_errors' = <<>>
    /\ places_count_by_type' = <<>> /\ place_markers' = <<>>
    /\ ti' = 0 /\ all_nearby_places' = <<>> /\ pj' = 0
    /\ calls' = <<>>
    /\ ret' = NoReturn
    /\ UNCHANGED <<csv, sort_ties, earlier_refresh, eda_args, eda_ret, merged_df>>

----------------------------------------------------------------------------
(* The dataset: one row per precinct, month and law category.  The datasets
   defined by name give the rows as the data file holds them, with the
   danger ratio as the text of its cell; a loaded row holds the float64
   read_csv made of it. *)

Row(zips, date, cat, count, area, areaName, rent, danger) ==
    [zips |-> zips, date |-> date, law_cat_cd |-> cat, count |-> count,
     precinct_area |-> area, areaName |-> areaName, median_rent |-> rent,
     danger_ratio |-> danger]

\* the dataset read_csv could not load (lines 26-41)
EmptyDf == <<>>

\* a loaded dataset: ZIP 10001 over two months, and a precinct of another ZIP
SampleDf ==
    LET \* the texts of 8/3000 and of 4/3100
        r8 == Decimal(<<0>>, <<0, 0, 2, 6, 6, 6, 6, 6, 6, 6, 6, 6, 6, 6, 6, 6, 6, 6, 6>>)
        r4 == Decimal(<<0>>, <<0, 0, 1, 2, 9, 0, 3, 2, 2, 5, 8, 0, 6, 4, 5, 1, 6, 1, 3>>)
    IN
    << Row(<<"10001", "10002">>, <<2024, 5, 1>>, "FELONY", 2, "Midtown South", "Midtown",
           Some(3000), Some(r8)),
       Row(<<"10001", "10002">>, <<2024, 5, 1>>, "MISDEMEANOR", 1, "Midtown South", "Midtown",
           Some(3000), Some(r8)),
       Row(<<"10451">>, <<2024, 6, 1>>, "FELONY", 5, "Melrose", "South Bronx",
           None, None),
       Row(<<"10001", "10002">>, <<2024, 6, 1>>, "FELONY", 1, "Chelsea", "Chelsea-Clinton",
           Some(3100), Some(r4)),
       Row(<<"10001", "10002">>, <<2024, 6, 1>>, "VIOLATION", 1, "Chelsea", "Chelsea-Clinton",
           Some(3100), Some(r4)) >>

Datasets == {EmptyDf, SampleDf}

----------------------------------------------------------------------------
(* Loading the data file, lines 17-41 *)

\* the "ZIP Codes" cell of a row of the file: the text of a list of ZIP codes,
\* written as numbers or as strings; an empty cell, which read_csv gives as NaN;
\* or a text that eval cannot evaluate to a list
ZipList(items) == [kind |-> "list", items |-> items]
ZipNaN == [kind |-> "nan", items |-> <<>>]
ZipUnparseable == [kind |-> "unparseable", items |-> <<>>]

\* an element of the list, and str(z) of it
ZipString(digits) == <<"str", digits>>
Str(z) == z[2]

\* eval(x) raises
EvalRaises(x) == x.kind = "unparseable"

\* lambda x: [str(z) for z in eval(x)] if isinstance(x, str) else []
ParseZips(x) ==
    IF x.kind = "list" THEN [i \in DOMAIN x.items |-> Str(x.items[i])] ELSE <<>>

\* the file is missing
NoFile == None

\* the try block of lines 17-25 and its two handlers: a missing file, and any
\* exception raised while the column is converted, leave the empty DataFrame
LoadCsv(file) ==
    IF file = NoFile THEN EmptyDf
    ELSE IF \E i \in DOMAIN file[1] : EvalRaises(file[1][i].zips) THEN EmptyDf
    ELSE [i \in DOMAIN file[1] |->
             [file[1][i] EXCEPT !.zips = ParseZips(@),
                                !.danger_ratio = IF @ = None THEN None
                                                 ELSE Some(precise_xstrtod(@[1]))]]

\* the file that holds the rows of a dataset, its ZIP lists written as strings
\* and its danger ratios as the dataset gives their text
ToCsv(df) ==
    Some([i \in DOMAIN df |->
            [df[i] EXCEPT !.zips = ZipList([j \in DOMAIN @ |-> ZipString(@[j])])]])

\* the data files: none, the files of the datasets, and the file of the sample
\* dataset with the ZIP list of its third row cut short
CsvFiles ==
    {NoFile} \cup {ToCsv(df) : df \in Datasets \ {EmptyDf}}
    \cup {Some([ToCsv(SampleDf)[1] EXCEPT ![3].zips = ZipUnparseable])}

----------------------------------------------------------------------------
(* update_eda: the date and category filters, and the grouping operations *)

\* the days of a month
DaysInMonth(y, m) ==
    IF m = 2
    THEN (IF (y % 4 = 0 /\ y % 100 # 0) \/ y % 400 = 0 THEN 29 ELSE 28)
    ELSE IF m \in {4, 6, 9, 11} THEN 30 ELSE 31

\* a variant that labels the bin by the first day of the month
MonthBegin(d) == <<d[1], d[2], 1>>

\* the label of the bin pd.Grouper(key='date', freq='M') puts a date in: the
\* last day of its calendar month
MonthEnd(d) == <<d[1], d[2], DaysInMonth(d[1], d[2])>>

NextMonthEnd(d) ==
    IF d[2] = 12 THEN MonthEnd(<<d[1] + 1, 1, 1>>) ELSE MonthEnd(<<d[1], d[2] + 1, 1>>)

\* the month ends from a to b, both month ends, a not after b
RECURSIVE MonthEndsFrom(_, _)
MonthEndsFrom(a, b) ==
    IF a = b THEN <<a>> ELSE <<a>> \o MonthEndsFrom(NextMonthEnd(a), b)

\* df["date"].min()
EarliestDate(df) ==
    CHOOSE d \in {df[i].date : i \in 1..Len(df)} :
        \A i \in 1..Len(df) : DateLeq(d, df[i].date)

\* the bins of groupby(pd.Grouper(key='date', freq='M')): every month from
\* that of the earliest date to that of the latest, months without rows too
MonthBins(df) == MonthEndsFrom(MonthEnd(EarliestDate(df)), MonthEnd(LatestDate(df)))

\* the rows of a month bin
RowsOfMonth(df, bin) == SelectSeq(df, LAMBDA r : MonthEnd(r.date) = bin)

\* merged_df[(merged_df["date"] >= start_date_obj) & (merged_df["date"] <= end_date_obj)]
FilterDateRange(df, start_date_obj, end_date_obj) ==
    SelectSeq(df, LAMBDA r : DateLeq(start_date_obj, r.date) /\ DateLeq(r.date, end_date_obj))

\* filtered_df_date_range[filtered_df_date_range["law_cat_cd"] == category]
FilterCategory(df, category) == SelectSeq(df, LAMBDA r : r.law_cat_cd = category)

\* filtered_df_date_range[filtered_df_date_range['areaName'] == area_name_selected]
FilterArea(df, area_name_selected) ==
    SelectSeq(df, LAMBDA r : r.areaName = area_name_selected)

\* the precinct areas in the order groupby("precinct_area") lists its keys
AreaOrder ==
    <<"Astoria", "Bay Ridge", "Bedford", "Canarsie", "Chelsea",
      "Chinatown", "Corona", "Crown Heights", "East Harlem", "Flatbush",
      "Flushing", "Greenpoint", "Harlem", "Jamaica", "Melrose",
      "Midtown North", "Midtown South", "Morrisania", "Park Slope",
      "Riverdale", "SoHo", "Tribeca", "Upper East Side", "Williamsburg">>

\* the keys of groupby("precinct_area"), ascending
RECURSIVE AreaKeysFrom(_, _)
AreaKeysFrom(df, i) ==
    IF i > Len(AreaOrder) THEN <<>>
    ELSE (IF \E k \in DOMAIN df : df[k].precinct_area = AreaOrder[i]
          THEN <<AreaOrder[i]>> ELSE <<>>) \o AreaKeysFrom(df, i + 1)

AreaKeys(df) == AreaKeysFrom(df, 1)

\* the rows of a precinct area
RowsOfArea(df, a) == SelectSeq(df, LAMBDA r : r.precinct_area = a)

\* the mean of danger_ratio in one group of a groupby: nulls are skipped, the
\* values are added up in row order with Kahan summation, as pandas'
\* group_mean does, and the sum is divided by their number; the mean of no
\* value is null (NaN)
MeanDanger(df) ==
    LET notna == SelectSeq(DangerColumn(df), LAMBDA v : v # None)
        \* a - b
        sub(a, b) == DAdd(a, [b EXCEPT !.s = -b.s])
        RECURSIVE from(_, _, _, _)
        from(xs, i, sumx, compensation) ==
            IF i > Len(xs) THEN sumx
            ELSE With(sub(xs[i], compensation), LAMBDA y :
                 With(DAdd(sumx, y), LAMBDA t :
                 With(sub(sub(t, sumx), y), LAMBDA c :
                     from(xs, i + 1, t, c))))
    IN  With([i \in DOMAIN notna |-> notna[i][1]], LAMBDA xs :
            IF xs = <<>> THEN None
            ELSE Some(DDivInt(from(xs, 1, DZero, DZero), Len(xs))))

\* the values of s in ascending order
RECURSIVE SortedInts(_)
SortedInts(s) ==
    IF s = <<>> THEN <<>>
    ELSE LET m == CHOOSE i \in DOMAIN s : \A j \in DOMAIN s : s[i] <= s[j]
         IN  <<s[m]>> \o SortedInts([k \in 1..(Len(s) - 1) |-> IF k < m THEN s[k] ELSE s[k + 1]])

\* the median of median_rent, as a fraction <<num, den>> in lowest terms: nulls
\* are skipped, the two middle values are averaged, and the median of no value
\* is null (NaN)
MedianRent(df) ==
    LET xs == SortedInts(NotNa(df, "median_rent"))
        k == Len(xs)
        two == xs[k \div 2] + xs[k \div 2 + 1]
    IN  IF k = 0 THEN None
        ELSE IF k % 2 = 1 THEN Some(<<xs[(k + 1) \div 2], 1>>)
        ELSE IF two % 2 = 0 THEN Some(<<two \div 2, 1>>)
        ELSE Some(<<two, 2>>)

----------------------------------------------------------------------------
(* update_eda: the tables behind the charts *)

\* groupby(pd.Grouper(key='date', freq='M'))["count"].sum().reset_index()
MonthlyCounts(df) ==
    LET bins == MonthBins(df)
    IN  [k \in DOMAIN bins |-> <<bins[k], SumCount(RowsOfMonth(df, bins[k]))>>]

\* groupby(pd.Grouper(key='date', freq='M'))["median_rent"].median().reset_index()
MonthlyMedianRent(df) ==
    LET bins == MonthBins(df)
    IN  [k \in DOMAIN bins |-> <<bins[k], MedianRent(RowsOfMonth(df, bins[k]))>>]

\* groupby(pd.Grouper(key='date', freq='M'))["danger_ratio"].mean().reset_index()
\* A groupby whose one key is a pd.Grouper sorts the frame by date before it
\* bins the rows, so the ratios of a month are added up in date order; the sum
\* and the median of the two tables above do not depend on the order.
MonthlyMeanDanger(df) ==
    LET bins == MonthBins(df)
    IN  With(SortedByDate(df), LAMBDA sorted :
            [k \in DOMAIN bins |-> <<bins[k], MeanDanger(RowsOfMonth(sorted, bins[k]))>>])

\* groupby("precinct_area")["count"].sum().reset_index()
CountByArea(df) ==
    LET keys == AreaKeys(df)
    IN  [k \in DOMAIN keys |-> <<keys[k], SumCount(RowsOfArea(df, keys[k]))>>]

\* The row orders sort_values(column, ascending=False) can give a column of
\* dtype int64 or float64: descending, the rows of NaN last in row order, and
\* the rows of equal keys in any order.  The sort is numpy's quicksort, which
\* is not stable, and which numpy runs for these dtypes as its scalar sort or
\* as a vectorised sort, depending on its build and on the processor; the two
\* order equal keys differently.  An item is None for NaN, else Some key.
DescendingOrders(dtype, items) ==
    LET less(a, b) == IF dtype = "float64" THEN DLess(a, b) ELSE a < b
        keyed == {i \in DOMAIN items : items[i] # None}
        nan_idx == SelectSeq([i \in DOMAIN items |-> i], LAMBDA i : items[i] = None)
        \* the number of rows with a greater key: where the rows of a key start
        above == [i \in keyed |->
                     Cardinality({j \in keyed : less(items[i][1], items[j][1])})]
        RECURSIVE Perms(_)
        Perms(S) ==
            IF S = {} THEN {<<>>}
            ELSE UNION {{<<x>> \o p : p \in Perms(S \ {x})} : x \in S}
        RECURSIVE from(_)
        from(r) ==
            IF r >= Cardinality(keyed) THEN {nan_idx}
            ELSE LET block == {i \in keyed : above[i] = r}
                 IN  {p \o q : p \in Perms(block), q \in from(r + Cardinality(block))}
    IN  from(0)

\* The row order the process gives a column: the sort is a function of the
\* keys, so a column with equal keys is ordered as ties records it, and a
\* column without has one order.
SortedDescending(ties, dtype, items) ==
    IF <<dtype, items>> \in DOMAIN ties THEN ties[<<dtype, items>>]
    ELSE CHOOSE o \in DescendingOrders(dtype, items) : TRUE

\* the column t["count"] or t["danger_ratio"] of a table by area, as items
ValueColumn(dtype, t) ==
    SubSeq([k \in DOMAIN t |-> IF dtype = "int64" THEN Some(t[k][2]) ELSE t[k][2]],
           1, Len(t))

\* CountByArea(df).sort_values("count", ascending=False)
RankedCountByArea(df, ties) ==
    With(CountByArea(df), LAMBDA t :
        With(SortedDescending(ties, "int64", ValueColumn("int64", t)), LAMBDA o :
            [k \in DOMAIN o |-> t[o[k]]]))

\* groupby("precinct_area")["danger_ratio"].mean().reset_index()
DangerByArea(df) ==
    LET keys == AreaKeys(df)
    IN  [k \in DOMAIN keys |-> <<keys[k], MeanDanger(RowsOfArea(df, keys[k]))>>]

\* DangerByArea(df).sort_values("danger_ratio", ascending=False): the sort
\* compares the float64 means; the areas whose mean is NaN come last
RankedDangerByArea(df, ties) ==
    With(DangerByArea(df), LAMBDA t :
        With(SortedDescending(ties, "float64", ValueColumn("float64", t)), LAMBDA o :
            [k \in DOMAIN o |-> t[o[k]]]))

RECURSIVE Flatten(_)
Flatten(ss) == IF ss = <<>> THEN <<>> ELSE Head(ss) \o Flatten(Tail(ss))

\* groupby(["precinct_area", "month_year"])["danger_ratio"].mean().reset_index()
\* .sort_values(by=['month_year', 'precinct_area']): one row per area and
\* month that has rows
HeatmapTable(df) ==
    LET bins == MonthBins(df)
        keys == AreaKeys(df)
        cell(b, a) ==
            LET rows == RowsOfMonth(RowsOfArea(df, a), b)
            IN  IF rows = <<>> THEN <<>>
                ELSE << <<a, YearMonth(b), MeanDanger(rows)>> >>
    IN  Flatten([k \in DOMAIN bins |->
                    Flatten([j \in DOMAIN keys |-> cell(bins[k], keys[j])])])

\* len(heatmap_df_agg["month_year"].unique())
HeatmapMonths(t) == Cardinality({t[k][2] : k \in DOMAIN t})

\* explode("ZIP Codes"), astype(str) and the removal of '': one row per ZIP of
\* the list, in row order; an empty list gives one row whose ZIP is NaN,
\* printed 'nan'
Exploded(df) ==
    SelectSeq(Flatten([k \in DOMAIN df |->
                          IF df[k].zips = <<>> THEN <<[zip |-> "nan", row |-> df[k]]>>
                          ELSE [j \in DOMAIN df[k].zips |->
                                   [zip |-> df[k].zips[j], row |-> df[k]]]]),
              LAMBDA x : x.zip # "")

\* sort_values("date", ascending=False).groupby("ZIP Codes").first(), as
\* ZIP -> median_rent: the first rent that is not null among the rows of the
\* ZIP in the sorted frame, NaN if all are null
LatestRentByZip(df) ==
    With(Exploded(df), LAMBDA ex :
        With(nargsort([i \in DOMAIN ex |-> Some(DayNumber(ex[i].row.date))]), LAMBDA o :
            [z \in {ex[i].zip : i \in DOMAIN ex} |->
                LET rented == SelectSeq(o, LAMBDA i : /\ ex[i].zip = z
                                                      /\ ex[i].row.median_rent # None)
                IN  IF rented = <<>> THEN None ELSE ex[rented[1]].row.median_rent]))

----------------------------------------------------------------------------
(* update_eda: the nine figures *)

\* a plotly figure: the px function that built it, its title, the table it
\* plots (None when it was built without data) and the layout set on its axes
Figure(kind, title, data, layout) ==
    [kind |-> kind, title |-> title, data |-> data, layout |-> layout]

\* px.scatter(title=...): the placeholder of a chart that has no data
NoDataFigure(title) == Figure("scatter", title, None, <<>>)

\* Chart 1, lines 635-648
LineCrimeTrend(df_category_date_range, category, start_date, end_date) ==
    IF df_category_date_range # <<>>
    THEN Figure("line", <<"Crime Count Monthly Trend", category, start_date, end_date>>,
                Some(MonthlyCounts(df_category_date_range)), <<>>)
    ELSE NoDataFigure(<<"No Crime Trend data", category, start_date, end_date>>)

\* Chart 2, lines 653-671
BarCrimeArea(df_category_date_range, category, start_date, end_date, ties) ==
    IF df_category_date_range # <<>>
    THEN Figure("bar", <<"Crime Count by Precinct Area", category, start_date, end_date>>,
                Some(RankedCountByArea(df_category_date_range, ties)),
                <<"tickangle", 45>>)
    ELSE NoDataFigure(<<"No Crime Count data by Area", category, start_date, end_date>>)

\* Chart 3, lines 675-685
ScatterCrimeRent(df_category_date_range, category, start_date, end_date) ==
    IF df_category_date_range # <<>>
    THEN Figure("scatter", <<"Crime Count vs Median Rent by Borough", category,
                             start_date, end_date>>,
                Some(df_category_date_range), <<>>)
    ELSE NoDataFigure(<<"No Crime vs Rent data", category, start_date, end_date>>)

\* Chart 4, lines 689-697
BoxRent(filtered_df_date_range, start_date, end_date) ==
    IF filtered_df_date_range # <<>>
    THEN Figure("box", <<"Rent Distribution by Borough", start_date, end_date>>,
                Some(filtered_df_date_range), <<>>)
    ELSE NoDataFigure(<<"No Rent Distribution data", start_date, end_date>>)

\* Chart 5, lines 701-735
HeatDanger(filtered_df_date_range, start_date, end_date) ==
    IF filtered_df_date_range # <<>>
    THEN With(HeatmapTable(filtered_df_date_range), LAMBDA heatmap_df_agg :
             IF heatmap_df_agg # <<>>
             THEN Figure("density_heatmap",
                         <<"Average Crime-to-Rent Danger Index by Area and Month",
                           start_date, end_date>>,
                         Some(heatmap_df_agg),
                         <<"tickangle", 45, "dtick",
                           IF HeatmapMonths(heatmap_df_agg) > 12 THEN "M6" ELSE "M1">>)
             ELSE NoDataFigure(<<"No aggregated data for Heatmap", start_date, end_date>>))
    ELSE NoDataFigure(<<"No data for Heatmap", start_date, end_date>>)

\* Chart 6, lines 740-758
BarDangerArea(filtered_df_date_range, start_date, end_date, ties) ==
    IF filtered_df_date_range # <<>>
    THEN Figure("bar", <<"Average Danger Ratio by Precinct Area", start_date, end_date>>,
                Some(RankedDangerByArea(filtered_df_date_range, ties)),
                <<"tickangle", 45>>)
    ELSE NoDataFigure(<<"No Danger Ratio data by Area", start_date, end_date>>)

\* area_name_selected == 'Overall' or area_name_selected is None
IsOverall(area_name_selected) ==
    area_name_selected = None \/ area_name_selected = Some("Overall")

\* Chart 7, lines 764-798
RentTrendFigure(filtered_df_date_range, area_name_selected, start_date, end_date) ==
    IF filtered_df_date_range # <<>>
    THEN IF IsOverall(area_name_selected)
         THEN Figure("line", <<"Overall Median Rent Trend", start_date, end_date>>,
                     Some(MonthlyMedianRent(filtered_df_date_range)), <<>>)
         ELSE LET df_area_filtered_chart7 ==
                      FilterArea(filtered_df_date_range, area_name_selected[1])
              IN  IF df_area_filtered_chart7 # <<>>
                  THEN Figure("line", <<"Median Rent Trend for", area_name_selected[1],
                                        start_date, end_date>>,
                              Some(MonthlyMedianRent(df_area_filtered_chart7)), <<>>)
                  ELSE NoDataFigure(<<"No Median Rent Trend data for", area_name_selected[1],
                                      start_date, end_date>>)
    ELSE NoDataFigure(<<"No data for Median Rent Trend", start_date, end_date>>)

\* Chart 8, lines 806-837
OverallDangerTrendFigure(filtered_df_date_range, area_name_selected, start_date, end_date) ==
    IF filtered_df_date_range # <<>>
    THEN IF IsOverall(area_name_selected)
         THEN Figure("line", <<"Overall Average Danger Ratio Trend", start_date, end_date>>,
                     Some(MonthlyMeanDanger(filtered_df_date_range)), <<>>)
         ELSE LET df_area_filtered_chart8 ==
                      FilterArea(filtered_df_date_range, area_name_selected[1])
              IN  IF df_area_filtered_chart8 # <<>>
                  THEN Figure("line", <<"Average Danger Ratio Trend for", area_name_selected[1],
                                        start_date, end_date>>,
                              Some(MonthlyMeanDanger(df_area_filtered_chart8)), <<>>)
                  ELSE NoDataFigure(<<"No Danger Ratio Trend data for", area_name_selected[1],
                                      start_date, end_date>>)
    ELSE NoDataFigure(<<"No data for Danger Ratio Trend", start_date, end_date>>)

\* Chart 9, lines 842-876: the choropleth is built whether or not the exploded
\* frame has rows
ChoroplethRent(filtered_df_date_range, start_date, end_date) ==
    IF filtered_df_date_range # <<>>
    THEN Figure("choropleth_mapbox", <<"Latest Median Rent by ZIP Code", start_date, end_date>>,
                Some(LatestRentByZip(filtered_df_date_range)), <<>>)
    ELSE NoDataFigure(<<"No data for Choropleth", start_date, end_date>>)

----------------------------------------------------------------------------
(* update_eda *)

\* what raising PreventUpdate leaves the outputs with
PreventUpdate == <<"PreventUpdate">>

\* a variant that returns eight placeholders
EightNoDataFigures == [k \in 1..8 |-> NoDataFigure(<<"No data available">>)]

\* lines 596-597: [px.scatter(title="No data available")] * 9
NoDataFigures == [k \in 1..9 |-> NoDataFigure(<<"No data available">>)]

\* lines 602-603: strptime of the picker's value, or the dataset's bound
start_date_obj(df, start_date) ==
    IF start_date # None THEN start_date[1] ELSE EarliestDate(df)

end_date_obj(df, end_date) ==
    IF end_date # None THEN end_date[1] ELSE LatestDate(df)

\* the columns update_eda sorts in descending order, at lines 654 and 742
SortCalls(df, category, start_date, end_date) ==
    LET filtered_df_date_range ==
            FilterDateRange(df, start_date_obj(df, start_date), end_date_obj(df, end_date))
        df_category_date_range ==
            IF filtered_df_date_range # <<>>
            THEN FilterCategory(filtered_df_date_range, category)
            ELSE <<>>
    IN  (IF df_category_date_range # <<>>
         THEN {<<"int64", ValueColumn("int64", CountByArea(df_category_date_range))>>}
         ELSE {})
        \cup (IF filtered_df_date_range # <<>>
              THEN {<<"float64",
                      ValueColumn("float64", DangerByArea(filtered_df_date_range))>>}
              ELSE {})

\* a variant whose sort can order equal keys differently from call to call:
\* the orders of earlier calls are forgotten
TieOrdersPerCall(ties, columns) ==
    LET new == {c \in columns : Cardinality(DescendingOrders(c[1], c[2])) > 1}
        all == UNION {DescendingOrders(c[1], c[2]) : c \in new}
    IN  {f \in [new -> all] : \A c \in new : f[c] \in DescendingOrders(c[1], c[2])}

\* ties after the sorts of columns: a column with equal keys that the process
\* has not sorted before gets one of its orders, and a column sorted before
\* keeps its order
TieOrders(ties, columns) ==
    LET new == {c \in columns \ DOMAIN ties :
                   Cardinality(DescendingOrders(c[1], c[2])) > 1}
        all == UNION {DescendingOrders(c[1], c[2]) : c \in new}
    IN  IF new = {} THEN {ties}
        ELSE {[c \in DOMAIN ties \cup new |-> IF c \in new THEN f[c] ELSE ties[c]] :
                 f \in {g \in [new -> all] :
                           \A c \in new : g[c] \in DescendingOrders(c[1], c[2])}}

\* lines 611-881: the nine figures update_eda returns on a dataset that has
\* rows, in a process that orders equal keys as ties records
EdaFigures(df, category, start_date, end_date, area_name_selected, ties) ==
    LET filtered_df_date_range ==
            FilterDateRange(df, start_date_obj(df, start_date), end_date_obj(df, end_date))
        df_category_date_range ==
            IF filtered_df_date_range # <<>>
            THEN FilterCategory(filtered_df_date_range, category)
            ELSE <<>>
    IN  << LineCrimeTrend(df_category_date_range, category, start_date, end_date),
           BarCrimeArea(df_category_date_range, category, start_date, end_date, ties),
           ScatterCrimeRent(df_category_date_range, category, start_date, end_date),
           BoxRent(filtered_df_date_range, start_date, end_date),
           HeatDanger(filtered_df_date_range, start_date, end_date),
           BarDangerArea(filtered_df_date_range, start_date, end_date, ties),
           RentTrendFigure(filtered_df_date_range, area_name_selected,
                           start_date, end_date),
           OverallDangerTrendFigure(filtered_df_date_range, area_name_selected,
                                    start_date, end_date),
           ChoroplethRent(filtered_df_date_range, start_date, end_date) >>

\* a variant in which the date filter of line 612 is applied to merged_df itself
MergedDfAfterEdaInPlace(df, start_date, end_date) ==
    FilterDateRange(df, start_date_obj(df, start_date), end_date_obj(df, end_date))

\* merged_df after update_eda: the filtered frames are copies (lines 612-614,
\* 624-626, 702, 774, 846), and the columns written at lines 703 and 848-849
\* are written to those copies
MergedDfAfterEda(df, start_date, end_date) == df

\* the callback update_eda, lines 586-881
UpdateEda(n_clicks, category, start_date, end_date, area_name_selected) ==
    /\ pc = "idle"
    /\ eda_args' = [n_clicks |-> n_clicks, category |-> category,
                    start_date |-> start_date, end_date |-> end_date,
                    area_name_selected |-> area_name_selected]
    /\ IF n_clicks = 0
       THEN /\ eda_ret' = PreventUpdate
            /\ UNCHANGED <<merged_df, sort_ties>>
       ELSE IF merged_df = <<>>
       THEN /\ eda_ret' = NoDataFigures
            /\ UNCHANGED <<merged_df, sort_ties>>
       ELSE /\ \E ties \in TieOrders(sort_ties, SortCalls(merged_df, category,
                                                          start_date, end_date)) :
                  /\ sort_ties' = ties
                  /\ eda_ret' = EdaFigures(merged_df, category, start_date, end_date,
                                           area_name_selected, ties)
            /\ merged_df' = MergedDfAfterEda(merged_df, start_date, end_date)
    /\ pc' = "eda_done"
    /\ UNCHANGED <<csv, earlier_refresh, map_center, map_zoom, n, zip_code, time_limit, types,
                   current_center, current_zoom, lat, lon, markers, api_errors,
                   places_count_by_type, place_markers, ti, all_nearby_places, pj,
                   calls, ret>>

\* Dash writes the nine figures to the graphs; the callback can run again
DeliverEda ==
    /\ pc = "eda_done"
    /\ pc' = "idle"
    /\ eda_args' = None
    /\ eda_ret' = None
    /\ UNCHANGED <<csv, sort_ties, earlier_refresh, merged_df, map_center, map_zoom, n, zip_code, time_limit, types,
                   current_center, current_zoom, lat, lon, markers, api_errors,
                   places_count_by_type, place_markers, ti, all_nearby_places, pj,
                   calls, ret>>

\* History: the refresh that has returned is recorded, with the dataset and
\* the map centre of the moment, to be compared with a later one.  No code
\* corresponds to this step.
ObserveRefresh ==
    /\ pc = "eda_done"
    /\ eda_ret # PreventUpdate
    /\ earlier_refresh = None
    /\ earlier_refresh' = Some([args |-> eda_args, figures |-> eda_ret,
                                df |-> merged_df, center |-> map_center])
    /\ UNCHANGED <<csv, merged_df, map_center, map_zoom, pc, n, zip_code, time_limit,
                   types, current_center, current_zoom, lat, lon, markers, api_errors,
                   places_count_by_type, place_markers, ti, all_nearby_places, pj,
                   calls, ret, eda_args, eda_ret, sort_ties>>

----------------------------------------------------------------------------
(* The dashboard serving search requests *)

Idle ==
    /\ pc = "idle"
    /\ n = 0 /\ zip_code = "" /\ time_limit = 0 /\ types = <<>>
    /\ current_center = map_center /\ current_zoom = map_zoom
    /\ LocalsUnset
    /\ calls = <<>>
    /\ ret = NoReturn
    /\ eda_args = None
    /\ eda_ret = None

Init ==
    /\ csv \in CsvFiles
    /\ merged_df = LoadCsv(csv)
    /\ sort_ties = <<>>
    /\ earlier_refresh = None
    /\ map_center = InitialCenter
    /\ map_zoom = InitialZoom
    /\ Idle

\* the crime categories offered to update_eda
EdaCategories == {"FELONY", "VIOLATION"}

\* the date ranges picked: the whole dataset, one month, and a range before
\* the first record
EdaRanges ==
    { <<None, None>>, <<Some(<<2024, 5, 1>>), Some(<<2024, 5, 31>>)>>,
      <<Some(<<2023, 1, 1>>), Some(<<2023, 12, 31>>)>> }

\* the areas picked for the trends
EdaAreas == {None, Some("Overall"), Some("Midtown"), Some("Harlem")}

\* a variant whose sort could order equal dates differently from call to call
LatestChoicesAny ==
    IF DfZip(merged_df, zip_code) = <<>> THEN {0}
    ELSE LatestRows(DfZip(merged_df, zip_code))

\* the row sort_values(by="date", ascending=False).iloc[0] picks for the
\* request in progress, as its position in df_zip
LatestChoices ==
    IF DfZip(merged_df, zip_code) = <<>> THEN {0}
    ELSE {latest_overall_data_point(DfZip(merged_df, zip_code))}

Next ==
    \/ \E nn \in NClicks, z \in ZipInputs, limit \in Budgets, ts \in TypeChoices :
          Invoke(nn, z, limit, ts)
    \/ \E geo \in GeoResponses : Geocode(geo)
    \/ SkipType
    \/ \E places_result \in PlacesResponses : NearbySearch(places_result)
    \/ SkipCandidate
    \/ BadCandidate
    \/ \E dur_result \in DistanceResponses : Distance(dur_result)
    \/ \E latest \in LatestChoices : Summary(latest)
    \/ Deliver
    \/ \E nn \in NClicks, category \in EdaCategories, range \in EdaRanges,
          area_name_selected \in EdaAreas :
          UpdateEda(nn, category, range[1], range[2], area_name_selected)
    \/ DeliverEda

Spec == Init /\ [][Next]_vars

----------------------------------------------------------------------------
(* The ZIP summary over many datasets: searches without place types, whose
   geocoding succeeds, on datasets drawn row by row *)

\* the largest number of rows of a drawn dataset
MaxRows == 3

\* ZIP lists of a row: a precinct covering 10001, and one that does not
RowZips == { <<"10001", "10002">>, <<"10002">> }

\* dates of a row: in an earlier month, on the first day of a month, and later
\* in that month
RowDates == { <<2024, 5, 20>>, <<2024, 6, 1>>, <<2024, 6, 15>> }

\* law_cat_cd values
LawCategories == {"FELONY", "MISDEMEANOR", "VIOLATION"}

\* median_rent values: null, and two rents whose mean is not a whole number
RowRents == {None, Some(3000), Some(3101)}

\* what is drawn for a row: its ZIP list, its date, its category and its rent;
\* either the categories vary, or the rents
RowChoices == RowZips \X RowDates \X LawCategories \X {Some(3000)}

RentRowChoices ==
    RowZips \X {<<2024, 5, 20>>, <<2024, 6, 15>>} \X {"FELONY"} \X RowRents

\* precinct_area values
PrecinctAreas == <<"Chelsea", "Midtown South", "Melrose", "Tribeca", "Harlem">>

\* the dataset of the drawn rows f; the row at position i has count 2^(i-1),
\* so that a sum of counts tells which rows it was taken over, and an area of
\* its own, so that the reported area tells which row it was read from
DrawnDataset(f, len) ==
    [i \in 1..len |->
        Row(f[i][1], f[i][2], f[i][3], 2 ^ (i - 1),
            PrecinctAreas[((i - 1) % Len(PrecinctAreas)) + 1], "Manhattan",
            f[i][4], None)]

\* the geocoding response that gives coordinates
GeoOkResponse ==
    [exc |-> "", status |-> "OK",
     results |-> <<[ok |-> TRUE, lat |-> Some(GeocodedLocation.lat),
                    lng |-> Some(GeocodedLocation.lng)]>>,
     error_message |-> ""]

InitZip ==
    /\ \E len \in 1..MaxRows :
          \/ \E f \in [1..len -> RowChoices] : csv = ToCsv(DrawnDataset(f, len))
          \/ \E f \in [1..len -> RentRowChoices] : csv = ToCsv(DrawnDataset(f, len))
    /\ merged_df = LoadCsv(csv)
    /\ sort_ties = <<>>
    /\ earlier_refresh = None
    /\ map_center = InitialCenter
    /\ map_zoom = InitialZoom
    /\ Idle

NextZip ==
    \/ Invoke(1, "10001", 5, <<>>)
    \/ Geocode(GeoOkResponse)
    \/ \E latest \in LatestChoices : Summary(latest)

SpecZip == InitZip /\ [][NextZip]_vars

----------------------------------------------------------------------------
(* Chart refreshes over many datasets *)

\* the largest number of rows of a dataset drawn for the charts
MaxEdaRows == 3

\* the number of precinct areas of the dataset with many areas
ManyAreas == 21

\* dates of a row: in January, on the last day of February, and in April
\* what is drawn for a row: its date, its category and its precinct, which is
\* a precinct with a ZIP and a rent or one that has neither; the drawn rows
\* have no danger ratio, the datasets below have
EdaRowChoices ==
    { <<2024, 1, 15>>, <<2024, 2, 29>>, <<2024, 4, 1>> }
    \X {"FELONY", "VIOLATION"}
    \X { [zips |-> <<"10001">>, precinct_area |-> "Chelsea",
          areaName |-> "Chelsea-Clinton", median_rent |-> Some(3000),
          danger_ratio |-> None],
         [zips |-> <<>>, precinct_area |-> "Harlem", areaName |-> "Harlem",
          median_rent |-> None, danger_ratio |-> None] }

\* the dataset of the drawn rows f; the row at position i has count 2^(i-1)
EdaDataset(f, len) ==
    [i \in 1..len |->
        Row(f[i][3].zips, f[i][1], f[i][2], 2 ^ (i - 1), f[i][3].precinct_area,
            f[i][3].areaName, f[i][3].median_rent, f[i][3].danger_ratio)]

\* a dataset of one month with ManyAreas precinct areas, each with one FELONY
\* record; counts and danger ratios (0.001, 0.002, ...) grow with the position
\* of the area
ManyAreasDf ==
    [i \in 1..ManyAreas |->
        Row(<<"10001">>, <<2024, 2, 29>>, "FELONY", i, AreaOrder[i], "Manhattan",
            Some(3000), Some(Decimal(<<0>>, <<0, i \div 10, i % 10>>)))]

\* a dataset of one month in which two precinct areas of one ZIP have equal
\* counts and equal danger ratios, and different rents
TiedDf ==
    << Row(<<"10001">>, <<2024, 2, 29>>, "FELONY", 1, "Chelsea", "Chelsea-Clinton",
           Some(3000), Some(Decimal(<<0>>, <<0, 0, 1>>))),
       Row(<<"10001">>, <<2024, 2, 29>>, "FELONY", 1, "Melrose", "South Bronx",
           Some(3101), Some(Decimal(<<0>>, <<0, 0, 1>>))) >>

\* the date ranges picked: the whole dataset, and January 15 to February 29
EdaDrawnRanges ==
    { <<None, None>>, <<Some(<<2024, 1, 15>>), Some(<<2024, 2, 29>>)>> }

\* a dataset of one month in which the danger ratios of Bedford (0.1, 0.7) and
\* of Melrose (0.1, 0.2) have the exact means 0.4 and 0.15, the values of
\* Astoria and of Chelsea, and float64 means just below 0.4 and just above
\* 0.15; Harlem has no ZIP, no rent and no danger ratio
RoundedMeansDf ==
    << Row(<<"11102">>, <<2024, 2, 29>>, "FELONY", 1, "Astoria", "Queens",
           Some(3000), Some(Decimal(<<0>>, <<4>>))),
       Row(<<"11216">>, <<2024, 2, 29>>, "FELONY", 1, "Bedford", "Brooklyn",
           Some(3000), Some(Decimal(<<0>>, <<1>>))),
       Row(<<"11216">>, <<2024, 2, 29>>, "FELONY", 1, "Bedford", "Brooklyn",
           Some(3000), Some(Decimal(<<0>>, <<7>>))),
       Row(<<"10001">>, <<2024, 2, 29>>, "FELONY", 1, "Chelsea", "Chelsea-Clinton",
           Some(3000), Some(Decimal(<<0>>, <<1, 5>>))),
       Row(<<"10451">>, <<2024, 2, 29>>, "FELONY", 1, "Melrose", "South Bronx",
           Some(3000), Some(Decimal(<<0>>, <<1>>))),
       Row(<<"10451">>, <<2024, 2, 29>>, "FELONY", 1, "Melrose", "South Bronx",
           Some(3000), Some(Decimal(<<0>>, <<2>>))),
       Row(<<>>, <<2024, 2, 29>>, "FELONY", 1, "Harlem", "Harlem", None, None) >>

\* a dataset of one month and one ZIP with the first 18 precinct areas, enough
\* for the quicksort to partition, each area with one FELONY record and a rent
\* of its own: Astoria, Bay Ridge and Canarsie have the count 100 and the
\* danger ratios 0.5, 0.6 and 0.8, the other areas the counts 1..15 and the
\* danger ratios 0.001..0.015 in the order of their names; the records 2, 3
\* and 4 hold the latest date
TiedAreasDf ==
    [i \in 1..18 |->
        LET k == IF i \in {1, 2, 4} THEN 0 ELSE IF i = 3 THEN 1 ELSE i - 3
        IN  Row(<<"10001">>, IF i \in 2..4 THEN <<2024, 2, 29>> ELSE <<2024, 2, i>>,
                "FELONY", IF k = 0 THEN 100 ELSE k,
                AreaOrder[i], "Manhattan", Some(3000 + i),
                Some(IF k = 0 THEN Decimal(<<0>>, <<4 + i>>)
                     ELSE Decimal(<<0>>, <<0, k \div 10, k % 10>>)))]

InitEda ==
    /\ \/ \E len \in 1..MaxEdaRows : \E f \in [1..len -> EdaRowChoices] :
             csv = ToCsv(EdaDataset(f, len))
       \/ csv \in {ToCsv(ManyAreasDf), ToCsv(TiedDf), ToCsv(RoundedMeansDf),
                   ToCsv(TiedAreasDf)}
    /\ merged_df = LoadCsv(csv)
    /\ sort_ties = <<>>
    /\ earlier_refresh = None
    /\ map_center = InitialCenter
    /\ map_zoom = InitialZoom
    /\ Idle

NextEda ==
    \/ \E category \in EdaCategories, range \in EdaDrawnRanges,
          area_name_selected \in {Some("Overall"), Some("Harlem")} :
          UpdateEda(1, category, range[1], range[2], area_name_selected)
    \/ DeliverEda

SpecEda == InitEda /\ [][NextEda]_vars

----------------------------------------------------------------------------
(* Searches on datasets whose latest records tie: the data file holds
   records of ZIP 10001 with the same date and different precinct areas. *)

TiedZipDf ==
    << Row(<<"10001">>, <<2024, 6, 1>>, "FELONY", 1, "Chelsea", "Chelsea-Clinton",
           Some(3000), Some(Decimal(<<0>>, <<0, 0, 1>>))),
       Row(<<"10001">>, <<2024, 6, 1>>, "FELONY", 2, "Tribeca", "Lower Manhattan",
           Some(3101), Some(Decimal(<<0>>, <<0, 0, 1, 9, 3, 4, 8, 5, 9, 7, 2, 2, 6, 7, 0, 1, 0, 6, 4>>))) >>

\* a dataset whose only danger ratio is 0.00125, halfway between 0.0012 and
\* 0.0013; the float64 read from it is above it
DecimalTieZipDf ==
    << Row(<<"10001">>, <<2024, 6, 1>>, "FELONY", 5, "Chelsea", "Chelsea-Clinton",
           Some(4000), Some(Decimal(<<0>>, <<0, 0, 1, 2, 5>>))) >>

\* a dataset of 18 records of ZIP 10001, enough for the quicksort to
\* partition: the records 2, 3 and 4 hold the latest date, in the areas
\* Chelsea, Tribeca and Harlem
Ties18ZipDf ==
    [i \in 1..18 |->
        Row(<<"10001">>, IF i \in 2..4 THEN <<2024, 6, 1>> ELSE <<2024, 1, i>>,
            "FELONY", 1,
            IF i = 2 THEN "Chelsea" ELSE IF i = 3 THEN "Tribeca"
            ELSE IF i = 4 THEN "Harlem" ELSE "Melrose",
            "Manhattan", Some(3000), None)]

InitTies ==
    /\ csv \in {ToCsv(TiedZipDf), ToCsv(DecimalTieZipDf), ToCsv(Ties18ZipDf)}
    /\ merged_df = LoadCsv(csv)
    /\ sort_ties = <<>>
    /\ earlier_refresh = None
    /\ map_center = InitialCenter
    /\ map_zoom = InitialZoom
    /\ Idle

NextTies ==
    \/ \E z \in ZipInputs \ {""}, limit \in Budgets, ts \in {<<>>, <<"supermarket">>, <<"bogus", "park">>} :
          Invoke(1, z, limit, ts)
    \/ Geocode(GeoOkResponse)
    \/ SkipType
    \/ \E places_result \in PlacesResponses : NearbySearch(places_result)
    \/ SkipCandidate
    \/ BadCandidate
    \/ \E dur_result \in DistanceResponses : Distance(dur_result)
    \/ \E latest \in LatestChoices : Summary(latest)
    \/ Deliver

SpecTies == InitTies /\ [][NextTies]_vars

----------------------------------------------------------------------------
(* Refreshes run again, with searches in between, on datasets whose precinct
   areas have equal counts or equal danger ratios; a refresh that returned is
   recorded once, at any moment, and later refreshes are compared with it. *)

InitRefresh ==
    /\ csv \in {ToCsv(TiedDf), ToCsv(TiedAreasDf)}
    /\ merged_df = LoadCsv(csv)
    /\ sort_ties = <<>>
    /\ earlier_refresh = None
    /\ map_center = InitialCenter
    /\ map_zoom = InitialZoom
    /\ Idle

NextRefresh ==
    \/ Invoke(1, "10001", 5, <<>>)
    \/ Geocode(GeoOkResponse)
    \/ \E latest \in LatestChoices : Summary(latest)
    \/ Deliver
    \/ \E n_clicks \in {1, 2}, category \in EdaCategories,
          area_name_selected \in {Some("Overall"), Some("Harlem")} :
          UpdateEda(n_clicks, category, None, None, area_name_selected)
    \/ DeliverEda
    \/ ObserveRefresh

SpecRefresh == InitRefresh /\ [][NextRefresh]_vars

----------------------------------------------------------------------------
(* Vocabulary of the properties *)

Range(f) == {f[i] : i \in DOMAIN f}

\* the geocoding call of the request in progress gave coordinates
GeocodePassed ==
    /\ calls # <<>>
    /\ calls[1].api = "geocode"
    /\ calls[1].status = "OK"
    /\ calls[1].results # <<>>
    /\ calls[1].results[1].ok

\* the geocoding call of the request in progress failed
GeocodeFailed ==
    /\ calls # <<>>
    /\ calls[1].api = "geocode"
    /\ ~GeocodePassed

\* update_map has returned from a search that passed geocoding
SearchDone == pc = "done" /\ GeocodePassed

\* the positions in calls of the calls to an endpoint
CallsTo(api) == {i \in DOMAIN calls : calls[i].api = api}

\* the positions in calls of the distance calls for candidate k of type t
DistanceCallsFor(t, k) ==
    {i \in CallsTo("distance") : calls[i].place_type = t /\ calls[i].name = k}

\* the place markers of a marker list
CircleMarkers(ms) == {i \in DOMAIN ms : ms[i].tag = "CircleMarker"}

\* the marker list holds a place marker for candidate k of type t
HasMarker(ms, t, k) ==
    \E i \in CircleMarkers(ms) : ms[i].color = PLACE_COLORS[t] /\ ms[i].name = k

\* the loop over a result list reaches position k: no earlier entry raises
Reached(results, k) == \A j \in 1..(k - 1) : results[j].kind # "not_dict"

GeocodingErrorTexts ==
    {"Geocoding failed", "Network error during Geocoding",
     "Unexpected error during Geocoding"}

----------------------------------------------------------------------------
(* C1: when the geocoding step fails (non-OK status, empty results, network
   error or any other exception), the request ends at once: the geocoding
   call is the only upstream call, the returned marker list is empty, the
   returned text is the geocoding error message, and the returned center and
   zoom are the ones passed in. *)
C1_GeocodeFailureAborts ==
    GeocodeFailed =>
        /\ pc = "done"
        /\ Len(calls) = 1
        /\ ret.markers = Some(<<>>)
        /\ Len(api_errors) = 1
        /\ api_errors[1][1] \in GeocodingErrorTexts
        /\ api_errors[1][2] = zip_code
        /\ ret.info = P(api_errors[1])
        /\ ret.center = Some(current_center)
        /\ ret.zoom = Some(current_zoom)
        /\ current_center = map_center
        /\ current_zoom = map_zoom

\* a search with place types fails at geocoding with no results, on a map
\* that an earlier search has moved
C1_Witness ==
    /\ GeocodeFailed
    /\ calls[1].status = "ZERO_RESULTS"
    /\ types # <<>>
    /\ current_center # InitialCenter
    /\ pc = "done"

----------------------------------------------------------------------------
(* C2: a travel-time failure for one candidate never aborts the batch: the
   candidate is left out of the reachable set, and every other candidate with
   coordinates, of the same type and of all later types, is still queried
   (exactly once) and is in the returned markers when its walking time is
   within budget. *)
C2_TravelFailureDoesNotAbort ==
    SearchDone =>
        \A i \in CallsTo("places") :
            \A k \in 1..Len(calls[i].results) :
                (calls[i].results[k].kind = "ok" /\ Reached(calls[i].results, k)) =>
                    LET t == calls[i].place_type
                        ds == DistanceCallsFor(t, k)
                    IN  /\ Cardinality(ds) = 1
                        /\ \A d \in ds :
                              /\ d > i
                              /\ calls[d].value = None => ~HasMarker(ret.markers[1], t, k)
                              /\ (calls[d].value # None
                                    /\ calls[d].value[1] <= 60 * time_limit)
                                 => HasMarker(ret.markers[1], t, k)

\* the first travel-time call of a search fails; a later candidate of the same
\* type and a candidate of a later type are queried and returned
C2_Witness ==
    /\ SearchDone
    /\ \E d1, d2, d3 \in CallsTo("distance") :
          /\ d1 < d2 /\ d2 < d3
          /\ calls[d1].value = None
          /\ calls[d2].place_type = calls[d1].place_type
          /\ calls[d3].place_type # calls[d1].place_type
          /\ HasMarker(ret.markers[1], calls[d2].place_type, calls[d2].name)
          /\ HasMarker(ret.markers[1], calls[d3].place_type, calls[d3].name)
          /\ ~HasMarker(ret.markers[1], calls[d1].place_type, calls[d1].name)

----------------------------------------------------------------------------
(* C3: each travel-time failure is collected into the request's list of
   non-fatal errors: when the travel-time call fails for exactly one candidate
   of a search and every other call succeeds, the error list of the request
   has exactly one entry. *)
C3_TravelFailureRecorded ==
    ( /\ SearchDone
      /\ Cardinality({d \in CallsTo("distance") : calls[d].value = None}) = 1
      /\ \A i \in CallsTo("places") :
            /\ calls[i].status = "OK"
            /\ calls[i].results # <<>>
            /\ \A k \in 1..Len(calls[i].results) : calls[i].results[k].kind = "ok" )
    => Len(api_errors) = 1

----------------------------------------------------------------------------
(* C4: a nearby-search failure for one type adds one entry to the error list
   and does not abort the request: every requested type of the vocabulary is
   searched, in order, the error list has one entry per failed search, and
   every place found reachable is in the returned markers. *)
FailedSearch(i) ==
    \/ calls[i].status \notin {"OK", "ZERO_RESULTS"}
    \/ calls[i].status = "OK" /\ calls[i].results = <<>>
    \/ \E k \in 1..Len(calls[i].results) : calls[i].results[k].kind = "not_dict"

\* the place types of the nearby searches made so far, in call order
SearchedTypes ==
    LET cs == SelectSeq(calls, LAMBDA c : c.api = "places")
    IN  [i \in 1..Len(cs) |-> cs[i].place_type]

C4_NearbyFailureDoesNotAbort ==
    SearchDone =>
        /\ SearchRan =>
              SearchedTypes = SelectSeq(types, LAMBDA t : t \in DOMAIN PLACE_COLORS)
        /\ Len(api_errors) = Cardinality({i \in CallsTo("places") : FailedSearch(i)})
        /\ \A e \in Range(api_errors) :
              \E i \in CallsTo("places") : FailedSearch(i) /\ calls[i].place_type = e[2]
        /\ \A d \in CallsTo("distance") :
              (calls[d].value # None /\ calls[d].value[1] <= 60 * time_limit)
              => HasMarker(ret.markers[1], calls[d].place_type, calls[d].name)
        /\ \A j \in 1..Len(place_markers) : ret.markers[1][j] = place_markers[j]

\* the first type found a reachable place, the search for the second failed
C4_Witness ==
    /\ SearchDone
    /\ Len(types) = 2
    /\ Cardinality(CallsTo("places")) = 2
    /\ \E i \in CallsTo("places") :
          /\ calls[i].place_type = types[2]
          /\ calls[i].status \in {"RequestException", "Exception", "OVER_QUERY_LIMIT"}
    /\ \E j \in CircleMarkers(ret.markers[1]) :
          ret.markers[1][j].color = PLACE_COLORS[types[1]]
    /\ Len(api_errors) = 1

\* the search for the first type failed, the second type was still searched
\* and found a reachable place
C4_WitnessLater ==
    /\ SearchDone
    /\ Len(types) = 2
    /\ \E i \in CallsTo("places") : calls[i].place_type = types[1] /\ FailedSearch(i)
    /\ \E j \in CircleMarkers(ret.markers[1]) :
          ret.markers[1][j].color = PLACE_COLORS[types[2]]

----------------------------------------------------------------------------
(* C5: when the nearby-search response for a type has status ZERO_RESULTS, no
   travel-time call is made for that type, its count stays 0, no place of
   that type is returned and nothing about it enters the error list. *)
C5_ZeroResultsIsNoError ==
    GeocodePassed =>
        \A i \in CallsTo("places") :
            calls[i].status = "ZERO_RESULTS" =>
                LET t == calls[i].place_type
                IN  /\ \A d \in CallsTo("distance") : calls[d].place_type # t
                    /\ places_count_by_type[t] = 0
                    /\ \A j \in CircleMarkers(place_markers) :
                          place_markers[j].color # PLACE_COLORS[t]
                    /\ \A e \in Range(api_errors) : e[2] # t
                    /\ pc = "done" =>
                          \A j \in CircleMarkers(ret.markers[1]) :
                              ret.markers[1][j].color # PLACE_COLORS[t]

\* a search of two types returned: one gave ZERO_RESULTS, the other a place
C5_Witness ==
    /\ SearchDone
    /\ \E i \in CallsTo("places") : calls[i].status = "ZERO_RESULTS"
    /\ CircleMarkers(ret.markers[1]) # {}
    /\ api_errors = <<>>

----------------------------------------------------------------------------
(* C6: for every candidate with coordinates whose travel-time call succeeds
   with a duration of d seconds, the candidate is in the returned markers iff
   d/60 <= time_limit, the boundary d = 60 * time_limit included; every
   returned place marker carries the walking time of such a call, and none
   exceeds the budget. *)
C6_ReachableIffWithinBudget ==
    SearchDone =>
        /\ \A d \in CallsTo("distance") :
              calls[d].value # None =>
                  ( HasMarker(ret.markers[1], calls[d].place_type, calls[d].name)
                    <=> calls[d].value[1] <= 60 * time_limit )
        /\ \A j \in CircleMarkers(ret.markers[1]) :
              LET m == ret.markers[1][j]
              IN  /\ m.mins[1] <= time_limit * m.mins[2]
                  /\ \E d \in CallsTo("distance") :
                        /\ PLACE_COLORS[calls[d].place_type] = m.color
                        /\ calls[d].name = m.name
                        /\ calls[d].value # None
                        /\ m.mins[1] * 60 = calls[d].value[1] * m.mins[2]

\* a returned search with a place exactly on the budget, which is returned,
\* and a place one second over it, which is not
C6_Witness ==
    /\ SearchDone
    /\ \E d1, d2 \in CallsTo("distance") :
          /\ calls[d1].value = Some(60 * time_limit)
          /\ HasMarker(ret.markers[1], calls[d1].place_type, calls[d1].name)
          /\ calls[d2].value = Some(60 * time_limit + 1)
          /\ ~HasMarker(ret.markers[1], calls[d2].place_type, calls[d2].name)

----------------------------------------------------------------------------
(* C7: the reachability filter is monotonic in the budget.  The upstream
   responses of the search in progress are in calls; ReachableUnder(b) and
   CountsUnder(b) run lines 401-416 over them with the budget b.  With the
   request's own budget they give place_markers and places_count_by_type;
   with any larger budget they keep every place and lower no count. *)
PlacesCallOf(t) == CHOOSE i \in CallsTo("places") : calls[i].place_type = t

RECURSIVE ReachableUnder(_, _)
ReachableUnder(i, b) ==
    IF i = 0 THEN <<>>
    ELSE IF calls[i].api = "distance"
    THEN AddMarker(ReachableUnder(i - 1, b),
                   calls[PlacesCallOf(calls[i].place_type)].results[calls[i].name],
                   calls[i].place_type, calls[i].value, b)
    ELSE ReachableUnder(i - 1, b)

RECURSIVE CountsUnder(_, _)
CountsUnder(i, b) ==
    IF i = 0 THEN InitialCounts(types)
    ELSE IF calls[i].api = "distance"
    THEN AddCount(CountsUnder(i - 1, b), calls[i].place_type, calls[i].value, b)
    ELSE CountsUnder(i - 1, b)

C7_MonotonicInBudget ==
    GeocodePassed =>
        /\ place_markers = ReachableUnder(Len(calls), time_limit)
        /\ places_count_by_type = CountsUnder(Len(calls), time_limit)
        /\ \A b \in Budgets :
              time_limit <= b =>
                  /\ Range(place_markers) \subseteq Range(ReachableUnder(Len(calls), b))
                  /\ \A t \in DOMAIN places_count_by_type :
                        places_count_by_type[t] <= CountsUnder(Len(calls), b)[t]

\* a returned search kept one place and dropped another that a larger budget
\* of the dropdown keeps
C7_Witness ==
    /\ SearchDone
    /\ place_markers # <<>>
    /\ \E b \in Budgets :
          /\ time_limit < b
          /\ Len(ReachableUnder(Len(calls), b)) > Len(place_markers)

----------------------------------------------------------------------------
(* C8: at the end of every search that passed geocoding, the count of each
   requested type is the number of returned place markers of that type, the
   counts add up to the number of returned place markers, and the counts the
   summary lists are those counts. *)
MarkersOfType(ms, t) ==
    {j \in CircleMarkers(ms) : t \in DOMAIN PLACE_COLORS /\ ms[j].color = PLACE_COLORS[t]}

RECURSIVE SumOver(_, _)
SumOver(f, keys) ==
    IF keys = <<>> THEN 0 ELSE f[Head(keys)] + SumOver(f, Tail(keys))

\* the (type, count) items of the summary's "Places Found Nearby" list
ListedCounts(elements) ==
    UNION { Range(e[2]) : e \in {x \in Range(elements) : x[1] = "places_list"} }

C8_CountsMatchMarkers ==
    SearchDone =>
        /\ DOMAIN places_count_by_type = Range(types)
        /\ \A t \in Range(types) :
              places_count_by_type[t] = Cardinality(MarkersOfType(ret.markers[1], t))
        /\ SumOver(places_count_by_type, DictKeys(types, {}))
              = Cardinality(CircleMarkers(ret.markers[1]))
        /\ \A item \in ListedCounts(ret.info[2]) :
              item[2] = Cardinality(MarkersOfType(ret.markers[1], item[1]))

\* a returned search of two types with two places of one type, one of them
\* over the budget, and one place of the other
C8_Witness ==
    /\ SearchDone
    /\ Len(types) = 2
    /\ places_count_by_type[types[1]] = 1
    /\ places_count_by_type[types[2]] = 1
    /\ Cardinality(DistanceCallsFor(types[1], 1) \cup DistanceCallsFor(types[1], 2)) = 2
    /\ \A d \in CallsTo("distance") : calls[d].value # None
    /\ ListedCounts(ret.info[2]) = {<<types[1], 1>>, <<types[2], 1>>}

----------------------------------------------------------------------------
(* The ZIP summary: crime counts and month records (C9, C10) *)

\* the elements of the returned summary
ReturnedSummary == ret.info[2]

\* the positions in the returned summary of the elements with a tag
ElementsTagged(tag) ==
    {i \in DOMAIN ReturnedSummary : ReturnedSummary[i][1] = tag}

\* the rows of the dataset whose ZIP list contains the searched ZIP
MatchingRows == {i \in DOMAIN merged_df : zip_code \in Range(merged_df[i].zips)}

\* the rows that hold the maximum date among the matching rows
MaxDateRows ==
    {i \in MatchingRows :
        \A j \in MatchingRows :
            DayNumber(merged_df[j].date) <= DayNumber(merged_df[i].date)}

\* the matching rows dated on or after the first day of the calendar month of
\* the maximum date among the matching rows
MonthRows ==
    {i \in MatchingRows :
        \E x \in MaxDateRows :
            DayNumber(merged_df[i].date) >=
                merged_df[x].date[1] * 10000 + merged_df[x].date[2] * 100 + 1}

\* the month rows of a category
MonthRowsOf(cat) == {i \in MonthRows : merged_df[i].law_cat_cd = cat}

\* the sum of `count` over a set of rows
RECURSIVE CountOver(_)
CountOver(S) ==
    IF S = {} THEN 0
    ELSE LET i == CHOOSE x \in S : TRUE
         IN  merged_df[i].count + CountOver(S \ {i})

\* the rows at the positions of S, in dataset order
RowsAt(S) ==
    LET F[i \in 0..Len(merged_df)] ==
            IF i = 0 THEN <<>>
            ELSE IF i \in S THEN Append(F[i - 1], merged_df[i]) ELSE F[i - 1]
    IN  F[Len(merged_df)]

\* a search on a ZIP that has records has returned its summary
ZipSummaryReturned == pc = "done" /\ GeocodePassed /\ MatchingRows # {}

\* C9: in the ZIP summary the count reported for each of FELONY, MISDEMEANOR
\* and VIOLATION is the sum of `count` over the latest-month records of that
\* category, all three are always reported (0 when the category has no
\* record), and the three values add up to the sum of `count` over all
\* latest-month records.
C9_CrimeCountsAreSums ==
    ZipSummaryReturned =>
        /\ Cardinality(ElementsTagged("crime_counts")) = 1
        /\ ElementsTagged("no_crime_data") = {}
        /\ \A i \in ElementsTagged("crime_counts") :
              LET e == ReturnedSummary[i]
              IN  /\ Len(e) = 4
                  /\ e[2] = CountOver(MonthRowsOf("FELONY"))
                  /\ e[3] = CountOver(MonthRowsOf("MISDEMEANOR"))
                  /\ e[4] = CountOver(MonthRowsOf("VIOLATION"))
                  /\ e[2] + e[3] + e[4] = CountOver(MonthRows)

\* a summary whose latest month holds two FELONY records and no MISDEMEANOR
\* record: the FELONY count is the sum of the two and MISDEMEANOR is reported 0
C9_Witness ==
    /\ ZipSummaryReturned
    /\ MonthRowsOf("MISDEMEANOR") = {}
    /\ \E i, j \in MonthRowsOf("FELONY") :
          /\ i # j
          /\ \E k \in ElementsTagged("crime_counts") :
                /\ ReturnedSummary[k][2] = merged_df[i].count + merged_df[j].count
                /\ ReturnedSummary[k][3] = 0

\* C10: for a ZIP with at least one matching record, the month records the
\* summary is computed over are exactly the records whose ZIP list contains the
\* ZIP and whose date is on or after the first day of the calendar month of
\* the maximum date among the matching records; records of the ZIP from
\* earlier months and records of other ZIPs never contribute.
C10_MonthRecords ==
    ZipSummaryReturned =>
        /\ DfLatestMonth(DfZip(merged_df, zip_code)) = RowsAt(MonthRows)
        /\ \A i \in ElementsTagged("latest_date") :
              \E x \in MaxDateRows : ReturnedSummary[i][2] = merged_df[x].date
        /\ \A i \in ElementsTagged("crime_counts") :
              \A S \in SUBSET DOMAIN merged_df :
                 (ReturnedSummary[i][2] + ReturnedSummary[i][3]
                     + ReturnedSummary[i][4] = CountOver(S)) <=> (S = MonthRows)

\* a summary over a ZIP with a record of an earlier month, which is left out,
\* and a record of the latest month dated before the latest date, which is kept
C10_Witness ==
    /\ ZipSummaryReturned
    /\ MatchingRows \ MonthRows # {}
    /\ MonthRows \ MaxDateRows # {}
    /\ ElementsTagged("crime_counts") # {}
    /\ \A i \in ElementsTagged("crime_counts") :
          ReturnedSummary[i][2] + ReturnedSummary[i][3] + ReturnedSummary[i][4]
              = CountOver(MonthRows)

----------------------------------------------------------------------------
(* The ZIP summary of the two-month dataset (C11) *)

\* the returned summary holds the element e
Reports(e) == \E i \in ElementsTagged(e[1]) : ReturnedSummary[i] = e

\* a search for ZIP 10001 on the two-month dataset has returned its summary
TwoMonthSummaryReturned ==
    /\ pc = "done" /\ GeocodePassed
    /\ zip_code = "10001"
    /\ csv = ToCsv(SampleDf)

\* C11: on the dataset where ZIP 10001 has 2024-05 (felony 2, misdemeanor 1,
\* rent 3000) and 2024-06 (felony 1, violation 1, rent 3100, danger ratio
\* 4/3100), the summary for 10001 reports latest month 2024-06, counts
\* FELONY 1, MISDEMEANOR 0, VIOLATION 1, average rent 3100 and average danger
\* ratio 4/3100 (printed to four decimals); nothing of 2024-05 enters.
C11_TwoMonthScenario ==
    TwoMonthSummaryReturned =>
        /\ Reports(<<"latest_date", <<2024, 6, 1>>>>)
        /\ Reports(<<"crime_counts_header", <<2024, 6>>>>)
        /\ Reports(<<"crime_counts", 1, 0, 1>>)
        /\ Reports(<<"avg_rent", <<2024, 6>>, Some(3100)>>)
        /\ \E v \in 0..10000 :
              /\ Reports(<<"avg_danger", <<2024, 6>>, Some(v)>>)
              /\ 2 * 3100 * v - 2 * (3 * 1 + 0 + 1) * 10000 <= 3100
              /\ 2 * (3 * 1 + 0 + 1) * 10000 - 2 * 3100 * v <= 3100
        /\ \A tag \in {"latest_date", "crime_counts_header", "crime_counts",
                       "avg_rent", "avg_danger"} :
              Cardinality(ElementsTagged(tag)) = 1

\* the summary of the two-month dataset has been returned with its counts
C11_Witness ==
    /\ TwoMonthSummaryReturned
    /\ Reports(<<"crime_counts", 1, 0, 1>>)
    /\ Reports(<<"avg_rent", <<2024, 6>>, Some(3100)>>)

----------------------------------------------------------------------------
(* The area of the ZIP summary (C12) *)

\* the first row, in dataset order, among those holding the maximum date
FirstMaxDateRow == CHOOSE i \in MaxDateRows : \A j \in MaxDateRows : i <= j

\* C12: the area reported in the ZIP summary is that of a record with the
\* maximum date among the ZIP's records, and when several records share that
\* date it is the one occurring first in the dataset's original order.
C12_AreaOfFirstLatestRecord ==
    ZipSummaryReturned =>
        \A i \in ElementsTagged("area") :
            ReturnedSummary[i][2] = merged_df[FirstMaxDateRow].precinct_area

----------------------------------------------------------------------------
(* The average rent of the ZIP summary (C13) *)

\* the month rows whose median_rent is not null
RentedMonthRows == {i \in MonthRows : merged_df[i].median_rent # None}

\* the sum of median_rent over a set of rows with a rent
RECURSIVE RentOver(_)
RentOver(S) ==
    IF S = {} THEN 0
    ELSE LET i == CHOOSE x \in S : TRUE
         IN  merged_df[i].median_rent[1] + RentOver(S \ {i})

\* v is sum/k rounded to a whole number
IsRounded(v, sum, k) == 2 * (v * k - sum) <= k /\ 2 * (sum - v * k) <= k

\* C13: the average rent of the ZIP summary is null (N/A) iff no latest-month
\* record has a non-null median_rent; otherwise it is the mean over exactly
\* the latest-month records with a non-null median_rent: null rents count
\* neither in the sum nor in the divisor.
C13_AverageRent ==
    ZipSummaryReturned =>
        /\ Cardinality(ElementsTagged("avg_rent")) = 1
        /\ \A i \in ElementsTagged("avg_rent") :
              LET e == ReturnedSummary[i]
              IN  /\ (e[3] = None) <=> (RentedMonthRows = {})
                  /\ e[3] # None =>
                        IsRounded(e[3][1], RentOver(RentedMonthRows),
                                  Cardinality(RentedMonthRows))

\* a summary whose latest month has a record with a rent and one without
C13_Witness ==
    /\ ZipSummaryReturned
    /\ RentedMonthRows # {}
    /\ MonthRows \ RentedMonthRows # {}
    /\ \E i \in ElementsTagged("avg_rent") :
          /\ ReturnedSummary[i][3] # None
          /\ ReturnedSummary[i][3][1] >= 3000

\* a summary whose latest month has no record with a rent reports N/A
C13_WitnessNull ==
    /\ ZipSummaryReturned
    /\ RentedMonthRows = {}
    /\ \E i \in ElementsTagged("avg_rent") : ReturnedSummary[i][3] = None

----------------------------------------------------------------------------
(* The summary of a ZIP without records (C14) *)

\* a search on a ZIP that no record of the dataset has in its ZIP list has
\* returned its summary
NoRecordSummaryReturned == pc = "done" /\ GeocodePassed /\ MatchingRows = {}

\* C14: when no record has the searched ZIP, the ZIP summary carries the ZIP
\* and nothing else: area, latest month, average rent, crime counts, average
\* danger ratio and place counts are all null or empty (a place count of 0 is
\* read as empty here).
C14_NoRecordSummaryIsEmpty ==
    NoRecordSummaryReturned =>
        /\ Reports(<<"zip", zip_code>>)
        /\ \A tag \in {"area", "latest_date", "avg_rent", "crime_counts_header",
                       "crime_counts", "avg_danger"} :
              ElementsTagged(tag) = {}
        /\ \A i \in ElementsTagged("places_list") :
              \A k \in DOMAIN ReturnedSummary[i][2] :
                  ReturnedSummary[i][2][k][2] = 0

----------------------------------------------------------------------------
(* The dataset is not modified (C15) *)

\* update_eda has returned figures built from the dataset
EdaReturnedFigures ==
    /\ pc = "eda_done"
    /\ eda_args.n_clicks > 0
    /\ merged_df # <<>>

\* C15: request processing never modifies the loaded dataset: whatever the
\* search requests (update_map) and chart refreshes (update_eda), their inputs
\* and the upstream responses, no step changes a row or a field of merged_df.
C15_DatasetNeverModified == [][merged_df' = merged_df]_vars

\* a chart refresh over a date range that leaves rows of the dataset out has
\* returned, after a search had moved the map
C15_Witness ==
    /\ EdaReturnedFigures
    /\ eda_args.start_date # None
    /\ eda_ret[4].data # None
    /\ Len(eda_ret[4].data[1]) < Len(merged_df)
    /\ map_center # InitialCenter

----------------------------------------------------------------------------
(* Ingestion of the ZIP-codes column (C16) *)

\* the ZIP list a cell of the file stands for; none for a cell that is empty
\* or cannot be parsed
ZipsMeant(cell) ==
    IF cell.kind = "list" THEN [j \in DOMAIN cell.items |-> cell.items[j][2]]
    ELSE <<>>

\* C16: during ingestion a malformed or unparseable entry of the ZIP-codes
\* column yields an empty ZIP list for that one record; ingestion completes
\* and every other record is loaded with its own ZIP list and fields intact.
C16_MalformedZipEntryIsolated ==
    csv # NoFile =>
        /\ Len(merged_df) = Len(csv[1])
        /\ \A i \in DOMAIN merged_df :
              merged_df[i] = [csv[1][i] EXCEPT !.zips = ZipsMeant(@)]

----------------------------------------------------------------------------
(* Requests on a dataset that failed to load (C17) *)

\* C17: when the dataset is empty (it failed to load) every request degrades
\* to an explicit no-data result: a chart refresh returns nine placeholder
\* figures titled as no data, and a search (a click with a ZIP entered)
\* returns an empty marker list with a data-unavailable message and the
\* unchanged map center and zoom, without any upstream call.
C17_NoDataWhenDatasetEmpty ==
    merged_df = <<>> =>
        /\ pc \in {"idle", "done", "eda_done"}
        /\ calls = <<>>
        /\ (pc = "eda_done" /\ eda_args.n_clicks > 0) =>
              /\ Len(eda_ret) = 9
              /\ \A k \in 1..9 :
                    /\ eda_ret[k].kind = "scatter"
                    /\ eda_ret[k].data = None
                    /\ eda_ret[k].title = <<"No data available">>
        /\ (pc = "done" /\ n > 0 /\ zip_code # "") =>
              /\ ret.markers = Some(<<>>)
              /\ ret.info = <<"P", <<"Data failed to load. Map data unavailable.">>>>
              /\ ret.center = Some(map_center)
              /\ ret.zoom = Some(map_zoom)

\* a search on the empty dataset has returned
C17_Witness ==
    /\ merged_df = <<>>
    /\ pc = "done" /\ n > 0 /\ zip_code # ""
    /\ ret.markers = Some(<<>>)
    /\ calls = <<>>

\* a chart refresh on the empty dataset has returned
C17_WitnessRefresh ==
    /\ merged_df = <<>>
    /\ pc = "eda_done" /\ eda_args.n_clicks > 0
    /\ Len(eda_ret) = 9

----------------------------------------------------------------------------
(* Charts without records (C18) *)

\* the first and last day of the date range of the refresh, as yyyymmdd
RangeStart ==
    IF eda_args.start_date # None THEN DayNumber(eda_args.start_date[1])
    ELSE CHOOSE d \in {DayNumber(merged_df[i].date) : i \in DOMAIN merged_df} :
            \A i \in DOMAIN merged_df : d <= DayNumber(merged_df[i].date)

RangeEnd ==
    IF eda_args.end_date # None THEN DayNumber(eda_args.end_date[1])
    ELSE CHOOSE d \in {DayNumber(merged_df[i].date) : i \in DOMAIN merged_df} :
            \A i \in DOMAIN merged_df : d >= DayNumber(merged_df[i].date)

\* the rows dated within the range, both ends included
RangeRows ==
    {i \in DOMAIN merged_df :
        /\ RangeStart <= DayNumber(merged_df[i].date)
        /\ DayNumber(merged_df[i].date) <= RangeEnd}

\* the rows within the range of the selected category
CategoryRows == {i \in RangeRows : merged_df[i].law_cat_cd = eda_args.category}

\* the rows within the range of the selected area
AreaRows ==
    IF eda_args.area_name_selected \in {None, Some("Overall")} THEN RangeRows
    ELSE {i \in RangeRows : Some(merged_df[i].areaName) = eda_args.area_name_selected}

\* the rows within the range that have a ZIP code
ZipRows ==
    {i \in RangeRows : \E j \in DOMAIN merged_df[i].zips : merged_df[i].zips[j] # ""}

\* the rows that feed chart k
Feed(k) ==
    CASE k \in {1, 2, 3} -> CategoryRows
      [] k \in {4, 5, 6} -> RangeRows
      [] k \in {7, 8} -> AreaRows
      [] k = 9 -> ZipRows

\* the figure is the explicit no-data result: a placeholder without a table
IsNoData(figure) == figure.kind = "scatter" /\ figure.data = None

\* C18: in a chart refresh, whenever the records feeding a chart are empty
\* after a filtering stage (date range, category, area, or a later derived
\* stage), the chart's result is the explicit no-data result, never a table or
\* chart of zero or missing values; for each of the nine charts.
C18_EmptyFeedGivesNoData ==
    EdaReturnedFigures =>
        \A k \in 1..9 : Feed(k) = {} => IsNoData(eda_ret[k])

----------------------------------------------------------------------------
(* The ranked views (C19) *)

\* the table of counts by area is in descending order of the count
CountsDescending(t) == \A i \in 1..(Len(t) - 1) : t[i][2] >= t[i + 1][2]

\* the table of mean danger ratios by area is in descending order of the
\* mean, the areas without a mean last
DangerDescending(t) ==
    \A i \in 1..(Len(t) - 1) :
        \/ t[i + 1][2] = None
        \/ /\ t[i][2] # None
           /\ ~DLess(t[i][2][1], t[i + 1][2][1])

\* C19: the ranked views (crime count by precinct area, average danger ratio
\* by precinct area) list the groups in descending order of the reduced value
\* and are truncated to a fixed top-N, N at most 20: the table never has more
\* than N rows, however many groups the filtered data has.
C19_RankedViewsTruncated ==
    EdaReturnedFigures =>
        /\ eda_ret[2].data # None =>
              /\ CountsDescending(eda_ret[2].data[1])
              /\ Len(eda_ret[2].data[1]) <= 20
        /\ eda_ret[6].data # None =>
              /\ DangerDescending(eda_ret[6].data[1])
              /\ Len(eda_ret[6].data[1]) <= 20

----------------------------------------------------------------------------
(* The monthly crime trend (C20) *)

\* the last day of the calendar month of a date of 2024
LastDayOfMonth(d) ==
    <<d[1], d[2], <<31, 29, 31, 30, 31, 30, 31, 31, 30, 31, 30, 31>>[d[2]]>>

\* the sum of the counts of the buckets of a table
RECURSIVE BucketTotal(_)
BucketTotal(t) == IF t = <<>> THEN 0 ELSE Head(t)[2] + BucketTotal(Tail(t))

\* a refresh whose date range and category keep some record has returned
TrendReturned == EdaReturnedFigures /\ CategoryRows # {}

\* C20: in the monthly crime trend every record that passes the inclusive
\* date-range filter and the category filter contributes its count to exactly
\* one bucket, the one keyed by the last day of the record's calendar month;
\* the buckets are in ascending key order and their counts add up to the
\* total count of the filtered records.
C20_MonthlyTrendBuckets ==
    TrendReturned =>
        /\ eda_ret[1].kind = "line"
        /\ eda_ret[1].data # None
        /\ LET t == eda_ret[1].data[1]
           IN  /\ \A i \in CategoryRows :
                     \E k \in DOMAIN t : t[k][1] = LastDayOfMonth(merged_df[i].date)
               /\ \A k \in DOMAIN t :
                     t[k][2] = CountOver({i \in CategoryRows :
                                            LastDayOfMonth(merged_df[i].date) = t[k][1]})
               /\ \A k \in 1..(Len(t) - 1) : DayNumber(t[k][1]) < DayNumber(t[k + 1][1])
               /\ BucketTotal(t) = CountOver(CategoryRows)

\* a trend over a picked range with a record dated on its first day and one on
\* its last day, both kept, and a record outside the range; two buckets
C20_Witness ==
    /\ TrendReturned
    /\ eda_args.start_date # None
    /\ \E i, j \in CategoryRows :
          /\ merged_df[i].date = eda_args.start_date[1]
          /\ merged_df[j].date = eda_args.end_date[1]
    /\ DOMAIN merged_df \ RangeRows # {}
    /\ Len(eda_ret[1].data[1]) = 2
    /\ BucketTotal(eda_ret[1].data[1]) = CountOver(CategoryRows)

----------------------------------------------------------------------------
(* C21 *)

\* two calls of update_eda have the same category, date range and area
SameInputs(a, b) ==
    /\ a.category = b.category
    /\ a.start_date = b.start_date
    /\ a.end_date = b.end_date
    /\ a.area_name_selected = b.area_name_selected

\* a refresh has returned after the recorded one, with the same inputs and on
\* the dataset as it was then
RefreshRunAgain ==
    /\ pc = "eda_done"
    /\ eda_ret # PreventUpdate
    /\ earlier_refresh # None
    /\ SameInputs(earlier_refresh[1].args, eda_args)
    /\ earlier_refresh[1].df = merged_df

----------------------------------------------------------------------------
(* C22 *)

\* the derivation as the dashboard's explanation (lines 211-218) states it:
\* (3 * felonies + 2 * misdemeanors + violations) / median rent for a rent
\* above 0, and null for a null or zero rent
DangerRatio(f, m, v, r) ==
    IF r # None /\ r[1] > 0 THEN Some(<<3 * f + 2 * m + v, r[1]>>) ELSE None

\* the sum of `count` over the records of a category in the precinct and
\* calendar month of the record at position i
PrecinctMonthCount(i, cat) ==
    CountOver({j \in DOMAIN merged_df :
                 /\ merged_df[j].precinct_area = merged_df[i].precinct_area
                 /\ YearMonth(merged_df[j].date) = YearMonth(merged_df[i].date)
                 /\ merged_df[j].law_cat_cd = cat})

\* the float64 x >= 0 is w / r within a relative tolerance of 10^-9, for
\* integers 0 <= w < 8192 and 0 < r < 2^17
IsClose(x, w, r) ==
    LET a == BShl(BMulSmall(x.m, r), IF x.e > 0 THEN x.e ELSE 0)
        b == BShl(IF w = 0 THEN <<>> ELSE <<w>>, IF x.e < 0 THEN -x.e ELSE 0)
        diff == IF BCmp(a, b) >= 0 THEN BSub(a, b) ELSE BSub(b, a)
    IN  BCmp(BMulSmall(BMulSmall(BMulSmall(diff, 1000), 1000), 1000), b) <= 0

\* the danger ratio of the record at position i is the derived one
IsDerivedDangerRatio(i) ==
    LET d == DangerRatio(PrecinctMonthCount(i, "FELONY"),
                         PrecinctMonthCount(i, "MISDEMEANOR"),
                         PrecinctMonthCount(i, "VIOLATION"),
                         merged_df[i].median_rent)
        x == merged_df[i].danger_ratio
    IN  IF d = None THEN x = None
        ELSE x # None /\ IsClose(x[1], d[1][1], d[1][2])

\* C22: every danger ratio the ZIP summary averages is the derived one of its
\* record's precinct and month: (3 * felonies + 2 * misdemeanors + violations)
\* / median rent when the rent is above 0, null when the rent is null or zero.
C22_ConsumedDangerRatioIsDerived ==
    ZipSummaryReturned => \A i \in MonthRows : IsDerivedDangerRatio(i)

----------------------------------------------------------------------------
(* C23 *)

\* a geocoding response that is a transport error or an error of the API
IsTransportOrApiError(geo) ==
    \/ geo.exc # ""
    \/ geo.status \notin {"OK", "ZERO_RESULTS"}

\* the geocoding call of the request answered that the input has no results
NoResultsForInput ==
    calls[1].status \in {"OK", "ZERO_RESULTS"} /\ calls[1].results = <<>>

\* the kind of failure a geocoding response reaches the caller as: the message
\* the returned html.P is built from, without the interpolated values
FailureKind(geo) == GeocodeError(geo, zip_code)[1]

\* C23: when geocoding fails because the input has no results, the failure
\* returned to the caller is of another kind than the failure returned for any
\* transport error or API error.
C23_NoResultsDistinctFromErrors ==
    (pc = "done" /\ GeocodeFailed /\ NoResultsForInput) =>
        \A geo \in GeoResponses :
            IsTransportOrApiError(geo) => FailureKind(geo) # ret.info[2][1]

----------------------------------------------------------------------------
(* C24 *)

\* the requested place types that have no colour in PLACE_COLORS
UnknownTypes == {t \in Range(types) : t \notin DOMAIN PLACE_COLORS}

\* the positions in calls of the nearby searches for a place type
PlacesCallsFor(t) == {i \in CallsTo("places") : calls[i].place_type = t}

\* C24: a requested place type that is not in PLACE_COLORS is skipped: no
\* nearby search and no walking-time call is made for it, no error is recorded
\* for it and its count stays 0, while every other requested type gets its
\* nearby search.
C24_UnknownTypeSkipped ==
    GeocodePassed =>
        /\ \A i \in DOMAIN calls :
              calls[i].api # "geocode" => calls[i].place_type \notin UnknownTypes
        /\ \A i \in DOMAIN api_errors : api_errors[i][2] \notin UnknownTypes
        /\ \A t \in UnknownTypes : places_count_by_type[t] = 0
        /\ (pc = "done" /\ SearchRan) =>
              \A t \in Range(types) \ UnknownTypes : Cardinality(PlacesCallsFor(t)) = 1

\* a search has returned in which a type without colour was requested before
\* a type with one, and places of the later type were counted
C24_Witness ==
    /\ pc = "done" /\ GeocodePassed
    /\ \E i, j \in DOMAIN types :
          /\ i < j
          /\ types[i] \in UnknownTypes
          /\ types[j] \notin UnknownTypes
          /\ places_count_by_type[types[j]] > 0
          /\ places_count_by_type[types[i]] = 0
          /\ PlacesCallsFor(types[i]) = {}

----------------------------------------------------------------------------
(* C25 *)

\* the position of a requested place type in types
TypePosition(t) == CHOOSE i \in DOMAIN types : types[i] = t

\* the position in calls of the latest nearby search before the call at i
LatestPlacesCallBefore(i) ==
    CHOOSE j \in CallsTo("places") :
        j < i /\ \A k \in CallsTo("places") : k < i => k <= j

\* C25: within one search the upstream calls are made in order: the first call
\* is the geocoding call and any later call follows its success; every
\* walking-time call is for a candidate of the latest nearby-search response,
\* which is the one of its place type; the nearby searches follow the order of
\* the requested types; and the summary is computed only when the loop has
\* passed every requested type.
C25_CallsInOrder ==
    /\ \A i \in DOMAIN calls : (calls[i].api = "geocode") <=> (i = 1)
    /\ Len(calls) > 1 => GeocodePassed
    /\ \A i \in CallsTo("distance") :
          /\ \E j \in CallsTo("places") : j < i
          /\ LET j == LatestPlacesCallBefore(i)
             IN  /\ calls[j].place_type = calls[i].place_type
                 /\ \E k \in DOMAIN calls[j].results :
                       calls[j].results[k].name = calls[i].name
    /\ \A i, j \in CallsTo("places") :
          i < j => TypePosition(calls[i].place_type) < TypePosition(calls[j].place_type)
    /\ (pc \in {"summary", "done"} /\ GeocodePassed /\ SearchRan) =>
          /\ ti = Len(types) + 1
          /\ \A t \in Range(types) \cap DOMAIN PLACE_COLORS :
                \E i \in CallsTo("places") : calls[i].place_type = t

\* a search of two place types has returned its summary after a nearby search
\* and a walking-time call for each type
C25_Witness ==
    /\ pc = "done" /\ GeocodePassed
    /\ Len(types) = 2
    /\ \A t \in Range(types) :
          \E i \in CallsTo("distance") : calls[i].place_type = t
    /\ ret.info[1] = "Div"

----------------------------------------------------------------------------
(* C26 *)

\* the nearby search at position i of calls failed: an exception, or a status
\* other than OK and ZERO_RESULTS
PlacesCallFailed(i) == calls[i].status \notin {"OK", "ZERO_RESULTS"}

\* the positions in api_errors of the entries about a place type
ErrorsFor(t) == {i \in DOMAIN api_errors : api_errors[i][2] = t}

\* C26: no upstream call is made twice: one search makes at most one
\* geocoding call, at most one nearby search per requested place type and at
\* most one walking-time call per returned candidate, whether the call
\* succeeded or failed; and a failed nearby search leaves exactly one entry in
\* the error list.
C26_NoCallRepeated ==
    /\ Cardinality(CallsTo("geocode")) <= 1
    /\ \A t \in Range(types) : Cardinality(PlacesCallsFor(t)) <= 1
    /\ \A i \in CallsTo("distance") :
          Cardinality(DistanceCallsFor(calls[i].place_type, calls[i].name)) = 1
    /\ \A i \in CallsTo("places") :
          PlacesCallFailed(i) => Cardinality(ErrorsFor(calls[i].place_type)) = 1

\* a search has returned after a nearby search that failed and a walking-time
\* call that failed, each made once
C26_Witness ==
    /\ pc = "done" /\ GeocodePassed
    /\ \E i \in CallsTo("places") : PlacesCallFailed(i)
    /\ \E i \in CallsTo("distance") :
          /\ calls[i].status = "FAIL"
          /\ Cardinality(DistanceCallsFor(calls[i].place_type, calls[i].name)) = 1
    /\ Len(api_errors) = 1

----------------------------------------------------------------------------
(* C27 *)

\* the elements of a summary that are derived from the dataset: the area, the
\* latest data date, the average rent, the crime counts and the average danger
\* ratio, or the notice that the ZIP has no record
DatasetPart(summary) ==
    SelectSeq(summary,
              LAMBDA e : e[1] \in {"no_data", "area", "latest_date", "avg_rent",
                                   "crime_counts_header", "crime_counts",
                                   "no_crime_data", "avg_danger"})

\* the summary of the search for the same ZIP on the same dataset that
\* requests no place type, with the walking budget limit
PlainSummary(limit, latest) ==
    SummaryElements(LoadCsv(csv), zip_code, <<>>, <<>>, <<>>, limit, latest)

\* C27: the dataset-derived part of a returned summary is the one of the
\* search for the same ZIP on the same dataset that requests no place type,
\* under either budget; so any two searches for one ZIP that pass geocoding
\* show the same area, latest date, average rent, crime counts and average
\* danger ratio, whatever their budgets, place types and upstream responses.
C27_DatasetPartDependsOnZipOnly ==
    SearchDone =>
        \A limit \in Budgets, latest \in LatestChoices :
            DatasetPart(ReturnedSummary) = DatasetPart(PlainSummary(limit, latest))

\* a search for the ZIP whose latest records tie has returned with an error
\* from a nearby search and places counted for another type
C27_Witness ==
    /\ SearchDone
    /\ MatchingRows # {}
    /\ Cardinality(MaxDateRows) > 1
    /\ api_errors # <<>>
    /\ \E t \in Range(types) : places_count_by_type[t] > 0
    /\ time_limit = 10

----------------------------------------------------------------------------
(* C28 *)

\* the nearby search at position i of calls answered OK with an empty list
OkWithoutResults(i) == calls[i].status = "OK" /\ calls[i].results = <<>>

\* C28: a nearby-search response with status OK and an empty result list is
\* handled as a failure: no walking-time call is made and no place is counted
\* or marked for its type, and exactly one entry, a Places API error with
\* status OK, is added to the error list; of the responses without results,
\* only ZERO_RESULTS leaves no entry in the error list.
C28_OkWithoutResultsIsFailure ==
    GeocodePassed =>
        \A i \in CallsTo("places") :
            LET t == calls[i].place_type
            IN  /\ OkWithoutResults(i) =>
                      /\ \A d \in CallsTo("distance") : calls[d].place_type # t
                      /\ places_count_by_type[t] = 0
                      /\ \A j \in CircleMarkers(place_markers) :
                            place_markers[j].color # PLACE_COLORS[t]
                      /\ Cardinality(ErrorsFor(t)) = 1
                      /\ \A e \in ErrorsFor(t) :
                            api_errors[e] = <<"Places API Error", t, "OK", "">>
                /\ calls[i].results = <<>> =>
                      ((ErrorsFor(t) = {}) <=> (calls[i].status = "ZERO_RESULTS"))

\* a search of two types has returned: one nearby search answered OK with an
\* empty list, the other ZERO_RESULTS, and the error list has one entry
C28_Witness ==
    /\ pc = "done" /\ GeocodePassed
    /\ \E i, j \in CallsTo("places") :
          /\ OkWithoutResults(i)
          /\ calls[j].status = "ZERO_RESULTS"
    /\ Len(api_errors) = 1
    /\ ret.info[1] = "Div"
    /\ Reports(<<"api_errors", api_errors>>)
====
